---------------------------- MODULE Spec2Model ----------------------------
(***************************************************************************)
(* A model of the argon procedural macros (macros/src/lib.rs):             *)
(*   - controller, which reads the route and utoipa_response attributes  *)
(*     of the methods of an impl block and emits a router (the route       *)
(*     table) and an OpenAPI struct (the API document);                    *)
(*   - response!, which emits a response enum and its IntoResponse impl; *)
(* and of auth_middleware (core/src/auth.rs), the axum middleware that     *)
(* verifies a request before the handler runs.                             *)
(* Each macro is a pure function of its input token stream.  Init draws    *)
(* one macro invocation from bounded sets of inputs and one action per     *)
(* macro applies it.                                                       *)
(*                                                                       *)
(* Text that the code inspects character by character (identifiers that   *)
(* are lower-cased or split on '_', route paths whose leading '/' is       *)
(* stripped) is a sequence of one-character strings.  Other text (type     *)
(* names, method names, annotation descriptions) is a plain string.        *)
(***************************************************************************)
EXTENDS Naturals, Sequences, FiniteSets, TLC

VARIABLES
    invocation,   \* the macro call: [macro, input]
    pc,           \* "start" before the macro ran, "done" after
    expanded,     \* the TokenStream the macro returned
    random_state, \* the keys RandomState::new() draws for a HashSet of the run
    previous,     \* the TokenStream of the previous run on the same input
    middleware    \* one call of auth_middleware (core/src/auth.rs)

vars == <<invocation, pc, expanded, random_state, previous, middleware>>

-----------------------------------------------------------------------------
(* Option<T> *)
None == [some |-> FALSE]
Some(x) == [some |-> TRUE, v |-> x]

(* Result<T, syn::Error> *)
Ok(x) == [ok |-> TRUE, v |-> x]
Err(msg) == [ok |-> FALSE, err |-> msg]

-----------------------------------------------------------------------------
(* Characters: char::to_uppercase / char::to_lowercase on the ASCII letters; *)
(* every other character (digits, '_', '/') maps to itself.                  *)
LowerLetters ==
    <<"a","b","c","d","e","f","g","h","i","j","k","l","m",
      "n","o","p","q","r","s","t","u","v","w","x","y","z">>
UpperLetters ==
    <<"A","B","C","D","E","F","G","H","I","J","K","L","M",
      "N","O","P","Q","R","S","T","U","V","W","X","Y","Z">>

ToUpperChar(c) ==
    IF \E i \in 1..26 : LowerLetters[i] = c
    THEN UpperLetters[CHOOSE i \in 1..26 : LowerLetters[i] = c]
    ELSE c

ToLowerChar(c) ==
    IF \E i \in 1..26 : UpperLetters[i] = c
    THEN LowerLetters[CHOOSE i \in 1..26 : UpperLetters[i] = c]
    ELSE c

(* str::to_lowercase *)
ToLowercase(s) == [i \in 1..Len(s) |-> ToLowerChar(s[i])]

-----------------------------------------------------------------------------
(* syn::Type.  A path type has a name (its last segment) and the generic    *)
(* arguments of that segment; a generic argument is a type or a lifetime.   *)
(* kind "ref" is a reference type &T (a Type that is not Type::Path).       *)
Ty(name) == [kind |-> "path", name |-> name, args |-> <<>>]
Generic(name, args) == [kind |-> "path", name |-> name, args |-> args]
RefTy(t) == [kind |-> "ref", name |-> "&", args |-> <<t>>]
Lifetime(name) == [kind |-> "lifetime", name |-> name, args |-> <<>>]
(* A const generic argument, and a path type whose earlier segments (a     *)
(* path type themselves) come before its last segment: qualifier::name<..> *)
ConstArg(name) == [kind |-> "const", name |-> name, args |-> <<>>]
Qualified(qualifier, name, args) ==
    [kind |-> "path", name |-> name, args |-> args, qualifier |-> qualifier]

(* quote!(#ty).to_string(): the type's tokens, one string per token. *)
RECURSIVE Render(_)
RECURSIVE RenderArgs(_)
RenderArgs(args) ==
    IF args = <<>> THEN <<>>
    ELSE Render(Head(args))
         \o (IF Len(args) > 1 THEN <<",">> ELSE <<>>)
         \o RenderArgs(Tail(args))

Render(t) ==
    IF t.kind = "ref" THEN <<"&">> \o Render(t.args[1])
    ELSE (IF "qualifier" \in DOMAIN t
          THEN Render(t.qualifier) \o <<"::">> ELSE <<>>)
         \o (IF t.args = <<>> THEN <<t.name>>
             ELSE <<t.name, "<">> \o RenderArgs(t.args) \o <<">">>)

-----------------------------------------------------------------------------
(* The tokens inside an attribute's parentheses.                          *)
(*   LitStrTokens("/a")   a single string literal                          *)
(*   LitIntTokens(42)     a single integer literal                         *)
(*   TypeTokens(T)        a single type                                    *)
(*   KvTokens(args)       key = value pairs separated by commas; the empty *)
(*                        sequence is the empty token stream               *)
LitStrTokens(s) == [form |-> "litstr", str |-> s]
LitIntTokens(n) == [form |-> "litint", int |-> n]
TypeTokens(t) == [form |-> "type", ty |-> t]
KvTokens(args) == [form |-> "kv", args |-> args]

(* The value of a key = value pair. *)
IntVal(n) == [lit |-> "int", int |-> n]
StrVal(s) == [lit |-> "str", str |-> s]
TyVal(t) == [lit |-> "type", ty |-> t]
Kv(key, val) == [key |-> key, val |-> val]

(* syn::Attribute: the segments of its path and its Meta (Meta::Path has   *)
(* no tokens, Meta::List has the tokens between the parentheses).          *)
ListAttr(segments, tokens) ==
    [segments |-> segments, meta |-> "list", tokens |-> tokens]
PathAttr(segments) ==
    [segments |-> segments, meta |-> "path", tokens |-> KvTokens(<<>>)]

-----------------------------------------------------------------------------
(* Identifiers whose characters the code reads. *)
id_get == <<"g","e","t">>
id_post == <<"p","o","s","t">>
id_put == <<"p","u","t">>
id_delete == <<"d","e","l","e","t","e">>
id_patch == <<"p","a","t","c","h">>
id_utoipa_response ==
    <<"u","t","o","i","p","a","_","r","e","s","p","o","n","s","e">>

-----------------------------------------------------------------------------
(* syn::parse2::<LitStr>(tokens): the tokens are exactly one string literal. *)
ParseLitStr(tokens) ==
    IF tokens.form = "litstr" THEN Ok(tokens.str)
    ELSE Err(<<"expected string literal">>)

(* syn::parse2::<Type>(tokens): the tokens are exactly one type. *)
ParseType(tokens) ==
    IF tokens.form = "type" THEN Ok(tokens.ty)
    ELSE Err(<<"expected type">>)

(* UtoipaResponseArgs with no field set. *)
EmptyArgs ==
    [status |-> None, body |-> None, response |-> None, description |-> None]

(* One turn of the while loop of UtoipaResponseArgs::parse: the key, =,   *)
(* the value in the shape the key asks for.  Gives the updated fields or    *)
(* the error of the failing ?.                                            *)
ParseKeyValue(acc, kv) ==
    IF kv.key = "status" THEN
        IF kv.val.lit = "int" THEN
            IF kv.val.int < 65536
            THEN Ok([acc EXCEPT !.status = Some(kv.val.int)])
            ELSE Err(<<"number too large to fit in target type">>)
        ELSE Err(<<"expected integer literal">>)
    ELSE IF kv.key = "body" THEN
        IF kv.val.lit = "type"
        THEN Ok([acc EXCEPT !.body = Some(kv.val.ty)])
        ELSE Err(<<"expected type">>)
    ELSE IF kv.key = "response" THEN
        IF kv.val.lit = "type"
        THEN Ok([acc EXCEPT !.response = Some(kv.val.ty)])
        ELSE Err(<<"expected type">>)
    ELSE IF kv.key = "description" THEN
        IF kv.val.lit = "str"
        THEN Ok([acc EXCEPT !.description = Some(kv.val.str)])
        ELSE Err(<<"expected string literal">>)
    ELSE Err(<<"Unknown argument: ", kv.key>>)

(* The while loop of UtoipaResponseArgs::parse over the remaining pairs. *)
RECURSIVE ParseKeyValues(_, _)
ParseKeyValues(acc, args) ==
    IF args = <<>> THEN Ok(acc)
    ELSE LET r == ParseKeyValue(acc, Head(args))
         IN  IF r.ok THEN ParseKeyValues(r.v, Tail(args)) ELSE r

(* The check after the loop: body and response exclude each other. *)
ConflictMessage ==
    <<"Cannot specify both 'body' and 'response'. Use 'body' for simple types or 'response' for IntoResponses types.">>

CheckConflict(parsed) ==
    IF parsed.body.some /\ parsed.response.some
    THEN Err(ConflictMessage)
    ELSE Ok(parsed)

(* syn::parse2::<UtoipaResponseArgs>(tokens).  Tokens that do not start     *)
(* with an identifier fail at the first input.parse()?; a bare type that  *)
(* starts with an identifier is read as a key, which is unknown or is not   *)
(* followed by =.                                                         *)
ParseUtoipaResponseArgs(tokens) ==
    IF tokens.form = "kv" THEN
        LET r == ParseKeyValues(EmptyArgs, tokens.args)
        IN  IF r.ok THEN CheckConflict(r.v) ELSE r
    ELSE IF tokens.form = "type" /\ tokens.ty.kind = "path" THEN
        IF tokens.ty.name \in {"status", "body", "response", "description"}
        THEN Err(<<"expected =">>)
        ELSE Err(<<"Unknown argument: ", tokens.ty.name>>)
    ELSE Err(<<"expected identifier">>)

-----------------------------------------------------------------------------
RouteVerbs == {id_get, id_post, id_put, id_delete, id_patch}

(* A variant of extract_route_attr that gives up at the first attribute    *)
(* named by a route verb whose tokens are not one string literal.          *)
RECURSIVE extract_route_attr_stopAtMalformed(_)
extract_route_attr_stopAtMalformed(attrs) ==
    IF attrs = <<>> THEN None
    ELSE LET attr == Head(attrs)
             method == ToLowercase(attr.segments[Len(attr.segments)])
         IN  IF attr.segments # <<>> /\ method \in RouteVerbs
             THEN IF attr.meta = "list" /\ ParseLitStr(attr.tokens).ok
                  THEN Some(<<method, ParseLitStr(attr.tokens).v>>)
                  ELSE None
             ELSE extract_route_attr_stopAtMalformed(Tail(attrs))

(* A variant of extract_route_attr in which the last route attribute wins. *)
RECURSIVE extract_route_attr_lastWins(_)
extract_route_attr_lastWins(attrs) ==
    IF attrs = <<>> THEN None
    ELSE LET attr == Head(attrs)
             method == ToLowercase(attr.segments[Len(attr.segments)])
             later == extract_route_attr_lastWins(Tail(attrs))
         IN  IF later.some THEN later
             ELSE IF /\ attr.segments # <<>>
                     /\ method \in RouteVerbs
                     /\ attr.meta = "list"
                     /\ ParseLitStr(attr.tokens).ok
             THEN Some(<<method, ParseLitStr(attr.tokens).v>>)
             ELSE None

(* extract_route_attr: the (method, path) of the first attribute whose last *)
(* path segment, lower-cased, is a route verb and whose tokens are one      *)
(* string literal.                                                          *)
RECURSIVE extract_route_attr(_)
extract_route_attr(attrs) ==
    IF attrs = <<>> THEN None
    ELSE LET attr == Head(attrs)
             method == ToLowercase(attr.segments[Len(attr.segments)])
         IN  IF /\ attr.segments # <<>>
                /\ method \in RouteVerbs
                /\ attr.meta = "list"
                /\ ParseLitStr(attr.tokens).ok
             THEN Some(<<method, ParseLitStr(attr.tokens).v>>)
             ELSE extract_route_attr(Tail(attrs))

(* Whether the attribute is #[utoipa_response(...)] with a token list. *)
IsUtoipaResponseList(attr) ==
    /\ attr.segments # <<>>
    /\ attr.segments[Len(attr.segments)] = id_utoipa_response
    /\ attr.meta = "list"

(* The tokens pushed into responses(...) of #[utoipa::path]. *)
IntoResponsesTokens(t) == [resp |-> "into_responses", ty |-> t]
TripleTokens(status, description, body) ==
    [resp |-> "triple", status |-> status, description |-> description,
     body |-> body]

(* A variant of ResponseAttrTokens whose key/value form defaults to status *)
(* 201 and description "Created".                                          *)
ResponseAttrTokens_otherDefaults(attr) ==
    IF ~IsUtoipaResponseList(attr) THEN <<>>
    ELSE LET parsed == ParseUtoipaResponseArgs(attr.tokens)
             simple == ParseType(attr.tokens)
         IN  IF parsed.ok /\ parsed.v.response.some
             THEN <<IntoResponsesTokens(parsed.v.response.v)>>
             ELSE IF parsed.ok /\ parsed.v.body.some
             THEN <<TripleTokens(
                      IF parsed.v.status.some THEN parsed.v.status.v ELSE 201,
                      IF parsed.v.description.some
                      THEN parsed.v.description.v ELSE "Created",
                      parsed.v.body.v)>>
             ELSE IF simple.ok
             THEN <<TripleTokens(200, "Success", simple.v)>>
             ELSE <<>>

(* The body of the for loop of extract_utoipa_response_attrs for one       *)
(* attribute: the responses it pushes.                                      *)
ResponseAttrTokens(attr) ==
    IF ~IsUtoipaResponseList(attr) THEN <<>>
    ELSE LET parsed == ParseUtoipaResponseArgs(attr.tokens)
             simple == ParseType(attr.tokens)
         IN  IF parsed.ok /\ parsed.v.response.some
             THEN <<IntoResponsesTokens(parsed.v.response.v)>>
             ELSE IF parsed.ok /\ parsed.v.body.some
             THEN <<TripleTokens(
                      IF parsed.v.status.some THEN parsed.v.status.v ELSE 200,
                      IF parsed.v.description.some
                      THEN parsed.v.description.v ELSE "Success",
                      parsed.v.body.v)>>
             ELSE IF simple.ok
             THEN <<TripleTokens(200, "Success", simple.v)>>
             ELSE <<>>

(* A variant of extract_utoipa_response_attrs that lists the responses of  *)
(* the later attributes first.                                             *)
RECURSIVE extract_utoipa_response_attrs_reversed(_)
extract_utoipa_response_attrs_reversed(attrs) ==
    IF attrs = <<>> THEN <<>>
    ELSE extract_utoipa_response_attrs_reversed(Tail(attrs))
         \o ResponseAttrTokens(Head(attrs))

RECURSIVE extract_utoipa_response_attrs(_)
extract_utoipa_response_attrs(attrs) ==
    IF attrs = <<>> THEN <<>>
    ELSE ResponseAttrTokens(Head(attrs))
         \o extract_utoipa_response_attrs(Tail(attrs))

(* extract_types_from_generic: for a path type, every type argument of the *)
(* last segment, each preceded by what it yields itself.                    *)
RECURSIVE extract_types_from_generic(_)

(* A variant of ExtractFromArgs that pushes a type argument before what    *)
(* the argument yields itself.                                             *)
RECURSIVE ExtractFromArgs_outerFirst(_)
ExtractFromArgs_outerFirst(args) ==
    IF args = <<>> THEN <<>>
    ELSE (IF Head(args).kind \in {"lifetime", "const"} THEN <<>>
          ELSE <<Head(args)>> \o extract_types_from_generic(Head(args)))
         \o ExtractFromArgs_outerFirst(Tail(args))

(* The for loop over the arguments of the last segment (lines 374-384):    *)
(* an argument that is no type (a lifetime, a const) pushes nothing.       *)
RECURSIVE ExtractFromArgs(_)
ExtractFromArgs(args) ==
    IF args = <<>> THEN <<>>
    ELSE (IF Head(args).kind \in {"lifetime", "const"} THEN <<>>
          ELSE extract_types_from_generic(Head(args)) \o <<Head(args)>>)
         \o ExtractFromArgs(Tail(args))

extract_types_from_generic(ty) ==
    IF ty.kind = "path" THEN ExtractFromArgs(ty.args) ELSE <<>>

(* A variant of SchemaAttrTypes that reads the key/value pairs without the *)
(* check that body and response exclude each other.                        *)
SchemaAttrTypes_withoutConflictCheck(attr) ==
    IF ~IsUtoipaResponseList(attr) THEN <<>>
    ELSE LET parsed == IF attr.tokens.form = "kv"
                       THEN ParseKeyValues(EmptyArgs, attr.tokens.args)
                       ELSE ParseUtoipaResponseArgs(attr.tokens)
             simple == ParseType(attr.tokens)
         IN  IF parsed.ok
             THEN (IF parsed.v.body.some THEN <<parsed.v.body.v>> ELSE <<>>)
                  \o (IF parsed.v.response.some
                      THEN extract_types_from_generic(parsed.v.response.v)
                      ELSE <<>>)
             ELSE IF simple.ok THEN <<simple.v>>
             ELSE <<>>

(* A variant of SchemaAttrTypes that pushes nothing for a bare type. *)
SchemaAttrTypes_withoutSimple(attr) ==
    IF ~IsUtoipaResponseList(attr) THEN <<>>
    ELSE LET parsed == ParseUtoipaResponseArgs(attr.tokens)
         IN  IF parsed.ok
             THEN (IF parsed.v.body.some THEN <<parsed.v.body.v>> ELSE <<>>)
                  \o (IF parsed.v.response.some
                      THEN extract_types_from_generic(parsed.v.response.v)
                      ELSE <<>>)
             ELSE <<>>

(* A variant of SchemaAttrTypes that also pushes the response type itself. *)
SchemaAttrTypes_withEnvelope(attr) ==
    IF ~IsUtoipaResponseList(attr) THEN <<>>
    ELSE LET parsed == ParseUtoipaResponseArgs(attr.tokens)
             simple == ParseType(attr.tokens)
         IN  IF parsed.ok
             THEN (IF parsed.v.body.some THEN <<parsed.v.body.v>> ELSE <<>>)
                  \o (IF parsed.v.response.some
                      THEN extract_types_from_generic(parsed.v.response.v)
                           \o <<parsed.v.response.v>>
                      ELSE <<>>)
             ELSE IF simple.ok THEN <<simple.v>>
             ELSE <<>>

(* The body of the for loop of extract_response_schema_types for one       *)
(* attribute: the types it pushes.                                          *)
SchemaAttrTypes(attr) ==
    IF ~IsUtoipaResponseList(attr) THEN <<>>
    ELSE LET parsed == ParseUtoipaResponseArgs(attr.tokens)
             simple == ParseType(attr.tokens)
         IN  IF parsed.ok
             THEN (IF parsed.v.body.some THEN <<parsed.v.body.v>> ELSE <<>>)
                  \o (IF parsed.v.response.some
                      THEN extract_types_from_generic(parsed.v.response.v)
                      ELSE <<>>)
             ELSE IF simple.ok THEN <<simple.v>>
             ELSE <<>>

RECURSIVE extract_response_schema_types(_)
extract_response_schema_types(attrs) ==
    IF attrs = <<>> THEN <<>>
    ELSE SchemaAttrTypes(Head(attrs))
         \o extract_response_schema_types(Tail(attrs))

-----------------------------------------------------------------------------
(* The controller macro.  Its input is the annotated item: an impl block   *)
(* [construct |-> "impl", self_ty, items] or another construct.  An item   *)
(* of the block is [item |-> "fn" or "const", ident, has_self, attrs].     *)

(* Vec::push *)
Push(vec, x) == Append(vec, x)

(* The route registration pushed for a routed method:                      *)
(* router.route(path, axum::routing::<method>(<struct>::<fn>)).            *)
RouteRegistration(struct_name, method, route) ==
    [path |-> route[2],
     axum_method |-> route[1],
     handler_call |-> <<struct_name, method.ident>>]

(* format_ident!("__utoipa_path_{}", fn_name) *)
UtoipaWrapperName(fn_name) == <<"__utoipa_path_", fn_name>>

(* The path without its leading slash. *)
PathForUtoipa(path_str) ==
    IF path_str # <<>> /\ Head(path_str) = "/" THEN Tail(path_str)
    ELSE path_str

(* The wrapper function pushed for a routed method: its name, the          *)
(* arguments of #[utoipa::path(...)] (responses(...) only when there are   *)
(* response attributes) and the signature copied from the method.          *)
OpenapiPathFunction(struct_name, method, route) ==
    LET response_attrs == extract_utoipa_response_attrs(method.attrs)
    IN  [wrapper_name |-> UtoipaWrapperName(method.ident),
         utoipa_method |-> route[1],
         path |-> PathForUtoipa(route[2]),
         responses |-> IF response_attrs # <<>>
                       THEN Some(response_attrs) ELSE None,
         has_self |-> method.has_self,
         doc |-> <<struct_name, method.ident>>]

(* A variant of RegisterItem that skips a method whose verb and path are   *)
(* registered already.                                                     *)
RegisterItem_mergeDuplicates(acc, struct_name, item) ==
    LET route == extract_route_attr(item.attrs)
    IN  IF /\ item.item = "fn"
           /\ route.some
           /\ \A k \in 1..Len(acc.route_registrations) :
                  <<acc.route_registrations[k].axum_method,
                    acc.route_registrations[k].path>> # route.v
        THEN [route_registrations |->
                  Push(acc.route_registrations,
                       RouteRegistration(struct_name, item, route.v)),
              openapi_path_functions |->
                  Push(acc.openapi_path_functions,
                       OpenapiPathFunction(struct_name, item, route.v))]
        ELSE acc

(* One turn of the first for loop of controller (lines 42-135). *)
RegisterItem(acc, struct_name, item) ==
    LET route == extract_route_attr(item.attrs)
    IN  IF item.item = "fn" /\ route.some
        THEN [route_registrations |->
                  Push(acc.route_registrations,
                       RouteRegistration(struct_name, item, route.v)),
              openapi_path_functions |->
                  Push(acc.openapi_path_functions,
                       OpenapiPathFunction(struct_name, item, route.v))]
        ELSE acc

RECURSIVE RegisterItems(_, _, _)
RegisterItems(acc, struct_name, items) ==
    IF items = <<>> THEN acc
    ELSE RegisterItems(RegisterItem(acc, struct_name, Head(items)),
                       struct_name, Tail(items))

(* A variant of CollectItem that lists every method, routed or not. *)
CollectItem_everyMethod(acc, item) ==
    IF item.item = "fn"
    THEN [openapi_path_names |->
              Push(acc.openapi_path_names, UtoipaWrapperName(item.ident)),
          schema_types |->
              acc.schema_types \o extract_response_schema_types(item.attrs)]
    ELSE acc

(* One turn of the second for loop of controller (lines 144-156). *)
CollectItem(acc, item) ==
    IF item.item = "fn" /\ extract_route_attr(item.attrs).some
    THEN [openapi_path_names |->
              Push(acc.openapi_path_names, UtoipaWrapperName(item.ident)),
          schema_types |->
              acc.schema_types \o extract_response_schema_types(item.attrs)]
    ELSE acc

RECURSIVE CollectItems(_, _)
CollectItems(acc, items) ==
    IF items = <<>> THEN acc
    ELSE CollectItems(CollectItem(acc, Head(items)), Tail(items))

(* std::collections::HashSet<String>.  The set keeps its elements in an    *)
(* order that depends on the keys of its RandomState, which differ from    *)
(* run to run: here the order of insertion for one key and the opposite    *)
(* order for the other.                                                    *)
RandomStates == {"k0", "k1"}

HashSetNew == [hasher |-> random_state, elements |-> <<>>]

HashSetContains(set, value) ==
    \E i \in 1..Len(set.elements) : set.elements[i] = value

HashSetInsert(set, value) ==
    IF HashSetContains(set, value) THEN set
    ELSE [set EXCEPT !.elements =
             IF set.hasher = "k0" THEN Append(@, value) ELSE <<value>> \o @]

(* HashSet::iter: the elements in the order the set keeps them. *)
HashSetIter(set) == set.elements

(* A variant of DedupStep that never records what it has seen. *)
DedupStep_seenNotUpdated(acc, schema_type) ==
    LET type_str == Render(schema_type)
    IN  IF ~HashSetContains(acc.seen, type_str)
        THEN [unique_schemas |-> Push(acc.unique_schemas, schema_type),
              seen |-> acc.seen]
        ELSE acc

(* One turn of the deduplication loop (lines 161-167): seen holds the      *)
(* rendered text of the types kept so far.                                  *)
DedupStep(acc, schema_type) ==
    LET type_str == Render(schema_type)
    IN  IF ~HashSetContains(acc.seen, type_str)
        THEN [unique_schemas |-> Push(acc.unique_schemas, schema_type),
              seen |-> HashSetInsert(acc.seen, type_str)]
        ELSE acc

RECURSIVE Dedup(_, _)
Dedup(acc, schema_types) ==
    IF schema_types = <<>> THEN acc
    ELSE Dedup(DedupStep(acc, Head(schema_types)), Tail(schema_types))

(* A variant of UniqueSchemas that lists the kept types in the order in    *)
(* which the hash set iterates over their rendered text.                   *)
UniqueSchemas_inHashSetOrder(schema_types) ==
    LET acc == Dedup([unique_schemas |-> <<>>, seen |-> HashSetNew],
                     schema_types)
        order == HashSetIter(acc.seen)
    IN  [k \in 1..Len(order) |->
            acc.unique_schemas[
                CHOOSE i \in 1..Len(acc.unique_schemas) :
                    Render(acc.unique_schemas[i]) = order[k]]]

UniqueSchemas(schema_types) ==
    Dedup([unique_schemas |-> <<>>, seen |-> HashSetNew],
          schema_types).unique_schemas

(* A variant of OpenapiAttr that always writes components(schemas(...)). *)
OpenapiAttr_alwaysComponents(openapi_path_names, unique_schemas) ==
    [paths |-> openapi_path_names, components |-> Some(unique_schemas)]

(* #[openapi(paths(...))], with components(schemas(...)) when there are    *)
(* schemas (lines 171-192).                                                 *)
OpenapiAttr(openapi_path_names, unique_schemas) ==
    IF unique_schemas = <<>>
    THEN [paths |-> openapi_path_names, components |-> None]
    ELSE [paths |-> openapi_path_names, components |-> Some(unique_schemas)]

(* syn::Error::to_compile_error() *)
CompileError(message) == [kind |-> "compile_error", message |-> message]

(* A variant of controller that, for a self type that is no path, emits    *)
(* the router of an impl block without routes instead of the error.        *)
controller_routerOnError(input) ==
    IF input.construct # "impl"
    THEN CompileError(<<"expected impl">>)
    ELSE IF input.self_ty.kind # "path"
    THEN [kind |-> "expanded",
          impl_block |-> input,
          router |-> <<>>,
          openapi_path_functions |-> <<>>,
          openapi_attr |-> CompileError(<<"Expected a struct type">>),
          api_struct_name |-> <<"", "Api">>]
    ELSE
        LET struct_name == input.self_ty.name
            first == RegisterItems(
                [route_registrations |-> <<>>,
                 openapi_path_functions |-> <<>>],
                struct_name, input.items)
            second == CollectItems(
                [openapi_path_names |-> <<>>, schema_types |-> <<>>],
                input.items)
            unique_schemas == UniqueSchemas(second.schema_types)
        IN  [kind |-> "expanded",
             impl_block |-> input,
             router |-> first.route_registrations,
             openapi_path_functions |-> first.openapi_path_functions,
             openapi_attr |-> OpenapiAttr(second.openapi_path_names,
                                          unique_schemas),
             api_struct_name |-> <<struct_name, "Api">>]

(* The token stream controller returns for an input. *)
controller(input) ==
    IF input.construct # "impl"
    THEN CompileError(<<"expected impl">>)
    ELSE IF input.self_ty.kind # "path"
    THEN CompileError(<<"Expected a struct type">>)
    ELSE
        LET struct_name == input.self_ty.name
            first == RegisterItems(
                [route_registrations |-> <<>>,
                 openapi_path_functions |-> <<>>],
                struct_name, input.items)
            second == CollectItems(
                [openapi_path_names |-> <<>>, schema_types |-> <<>>],
                input.items)
            unique_schemas == UniqueSchemas(second.schema_types)
        IN  [kind |-> "expanded",
             impl_block |-> input,
             router |-> first.route_registrations,
             openapi_path_functions |-> first.openapi_path_functions,
             openapi_attr |-> OpenapiAttr(second.openapi_path_names,
                                          unique_schemas),
             api_struct_name |-> <<struct_name, "Api">>]

-----------------------------------------------------------------------------
(* The response! macro.  Status mnemonics are identifiers read character  *)
(* by character.                                                           *)
mn_OK == <<"O","K">>
mn_CREATED == <<"C","R","E","A","T","E","D">>
mn_NO_CONTENT == <<"N","O","_","C","O","N","T","E","N","T">>
mn_BAD_REQUEST == <<"B","A","D","_","R","E","Q","U","E","S","T">>
mn_UNAUTHORIZED == <<"U","N","A","U","T","H","O","R","I","Z","E","D">>
mn_FORBIDDEN == <<"F","O","R","B","I","D","D","E","N">>
mn_NOT_FOUND == <<"N","O","T","_","F","O","U","N","D">>
mn_METHOD_NOT_ALLOWED ==
    <<"M","E","T","H","O","D","_","N","O","T","_","A","L","L","O","W","E",
      "D">>
mn_CONFLICT == <<"C","O","N","F","L","I","C","T">>
mn_UNPROCESSABLE_ENTITY ==
    <<"U","N","P","R","O","C","E","S","S","A","B","L","E","_","E","N","T",
      "I","T","Y">>
mn_INTERNAL_SERVER_ERROR ==
    <<"I","N","T","E","R","N","A","L","_","S","E","R","V","E","R","_","E",
      "R","R","O","R">>
mn_BAD_GATEWAY == <<"B","A","D","_","G","A","T","E","W","A","Y">>
mn_SERVICE_UNAVAILABLE ==
    <<"S","E","R","V","I","C","E","_","U","N","A","V","A","I","L","A","B",
      "L","E">>
mn_ACCEPTED == <<"A","C","C","E","P","T","E","D">>
mn_IM_A_TEAPOT == <<"I","M","_","A","_","T","E","A","P","O","T">>
mn_GATEWAY_TIMEOUT ==
    <<"G","A","T","E","W","A","Y","_","T","I","M","E","O","U","T">>
mn_TEAPOT == <<"T","E","A","P","O","T">>
mn_StatusCode == <<"S","t","a","t","u","s","C","o","d","e">>
mn_UNKNOWN == <<"U","N","K","N","O","W","N">>

(* extract_status_code_constant: the last segment of the status code path. *)
extract_status_code_constant(path) ==
    IF path # <<>> THEN path[Len(path)] ELSE mn_UNKNOWN

(* str::split('_'): the words between the underscores (empty words kept). *)
RECURSIVE SplitUnderscore(_, _)
SplitUnderscore(word, rest) ==
    IF rest = <<>> THEN <<word>>
    ELSE IF Head(rest) = "_"
    THEN <<word>> \o SplitUnderscore(<<>>, Tail(rest))
    ELSE SplitUnderscore(Append(word, Head(rest)), Tail(rest))

(* A variant of Capitalize that leaves the rest of the word as it is. *)
Capitalize_restUnchanged(word) ==
    IF word = <<>> THEN <<>>
    ELSE <<ToUpperChar(Head(word))>> \o Tail(word)

(* The closure mapped over the words: first character upper-cased, the     *)
(* rest lower-cased; an empty word stays empty.                             *)
Capitalize(word) ==
    IF word = <<>> THEN <<>>
    ELSE <<ToUpperChar(Head(word))>> \o ToLowercase(Tail(word))

(* Iterator<String>::collect::<String>() *)
RECURSIVE Concat(_)
Concat(words) ==
    IF words = <<>> THEN <<>> ELSE Head(words) \o Concat(Tail(words))

(* [String]::join(sep) *)
RECURSIVE Join(_, _)
Join(words, sep) ==
    IF words = <<>> THEN <<>>
    ELSE IF Len(words) = 1 THEN Head(words)
    ELSE Head(words) \o sep \o Join(Tail(words), sep)

CapitalizedWords(status_code) ==
    LET words == SplitUnderscore(<<>>, status_code)
    IN  [i \in 1..Len(words) |-> Capitalize(words[i])]

status_code_to_variant_name(status_code) ==
    Concat(CapitalizedWords(status_code))

status_code_to_description(status_code) ==
    Join(CapitalizedWords(status_code), <<" ">>)

(* A variant of status_code_constant_to_number whose default is 500. *)
status_code_constant_to_number_default500(status_code) ==
    CASE status_code = mn_OK -> 200
      [] status_code = mn_CREATED -> 201
      [] status_code = mn_NO_CONTENT -> 204
      [] status_code = mn_BAD_REQUEST -> 400
      [] status_code = mn_UNAUTHORIZED -> 401
      [] status_code = mn_FORBIDDEN -> 403
      [] status_code = mn_NOT_FOUND -> 404
      [] status_code = mn_METHOD_NOT_ALLOWED -> 405
      [] status_code = mn_CONFLICT -> 409
      [] status_code = mn_UNPROCESSABLE_ENTITY -> 422
      [] status_code = mn_INTERNAL_SERVER_ERROR -> 500
      [] status_code = mn_BAD_GATEWAY -> 502
      [] status_code = mn_SERVICE_UNAVAILABLE -> 503
      [] OTHER -> 500

status_code_constant_to_number(status_code) ==
    CASE status_code = mn_OK -> 200
      [] status_code = mn_CREATED -> 201
      [] status_code = mn_NO_CONTENT -> 204
      [] status_code = mn_BAD_REQUEST -> 400
      [] status_code = mn_UNAUTHORIZED -> 401
      [] status_code = mn_FORBIDDEN -> 403
      [] status_code = mn_NOT_FOUND -> 404
      [] status_code = mn_METHOD_NOT_ALLOWED -> 405
      [] status_code = mn_CONFLICT -> 409
      [] status_code = mn_UNPROCESSABLE_ENTITY -> 422
      [] status_code = mn_INTERNAL_SERVER_ERROR -> 500
      [] status_code = mn_BAD_GATEWAY -> 502
      [] status_code = mn_SERVICE_UNAVAILABLE -> 503
      [] OTHER -> 200

(* format_ident!("{}", name) panics unless name is an identifier: not      *)
(* empty, not starting with a digit.                                        *)
Digits == {"0","1","2","3","4","5","6","7","8","9"}
IsValidIdent(name) == name # <<>> /\ Head(name) \notin Digits

(* What the first for loop of response (lines 602-623) pushes for an entry. *)
EntryParts(entry) ==
    LET status_code_constant == extract_status_code_constant(entry.status_code)
    IN  [status_code_constant |-> status_code_constant,
         variant_name |-> status_code_to_variant_name(status_code_constant),
         ty |-> entry.response_type,
         status_code |-> entry.status_code,
         description |->
             IF entry.description.some THEN entry.description.v
             ELSE status_code_to_description(status_code_constant)]

(* One variant of the generated enum (lines 627-639):                      *)
(* #[response(status = .., description = ..)] Variant(Type).               *)
EnumVariant(parts) ==
    [status |-> status_code_constant_to_number(parts.status_code_constant),
     description |-> parts.description,
     variant |-> parts.variant_name,
     ty |-> parts.ty]

(* One arm of the generated into_response (lines 643-662):                 *)
(* Self::Variant(data) => (StatusCode::<last segment>, Json(data)).        *)
MatchArm(parts) ==
    [variant |-> parts.variant_name,
     status_const |-> IF parts.status_code # <<>>
                      THEN parts.status_code[Len(parts.status_code)]
                      ELSE mn_OK]

(* A variant of response without the check for an empty entry list. *)
response_withoutEmptyCheck(input) ==
    IF input.syntax # "entries"
    THEN CompileError(<<"expected identifier">>)
    ELSE
        LET parts == [i \in 1..Len(input.entries) |->
                          EntryParts(input.entries[i])]
        IN  IF \E i \in 1..Len(parts) : ~IsValidIdent(parts[i].variant_name)
            THEN [kind |-> "panic"]
            ELSE [kind |-> "expanded",
                  enum_name |-> "Response",
                  enum_variants |->
                      [i \in 1..Len(parts) |-> EnumVariant(parts[i])],
                  match_arms |->
                      [i \in 1..Len(parts) |-> MatchArm(parts[i])]]

(* The token stream response! returns for an input: the parsed entries     *)
(* [syntax |-> "entries", entries], or tokens that are no entry list.      *)
response(input) ==
    IF input.syntax # "entries"
    THEN CompileError(<<"expected identifier">>)
    ELSE IF input.entries = <<>>
    THEN CompileError(
        <<"response! macro requires at least one status code and type pair">>)
    ELSE
        LET parts == [i \in 1..Len(input.entries) |->
                          EntryParts(input.entries[i])]
        IN  IF \E i \in 1..Len(parts) : ~IsValidIdent(parts[i].variant_name)
            THEN [kind |-> "panic"]
            ELSE [kind |-> "expanded",
                  enum_name |-> "Response",
                  enum_variants |->
                      [i \in 1..Len(parts) |-> EnumVariant(parts[i])],
                  match_arms |->
                      [i \in 1..Len(parts) |-> MatchArm(parts[i])]]

(* axum::http::StatusCode::<constant>: the associated constants of the     *)
(* http crate that the generated match arms name (a part of them).         *)
HttpStatusCode(status_const) ==
    CASE status_const = mn_OK -> Some(200)
      [] status_const = mn_CREATED -> Some(201)
      [] status_const = mn_ACCEPTED -> Some(202)
      [] status_const = mn_NO_CONTENT -> Some(204)
      [] status_const = mn_BAD_REQUEST -> Some(400)
      [] status_const = mn_UNAUTHORIZED -> Some(401)
      [] status_const = mn_FORBIDDEN -> Some(403)
      [] status_const = mn_NOT_FOUND -> Some(404)
      [] status_const = mn_METHOD_NOT_ALLOWED -> Some(405)
      [] status_const = mn_CONFLICT -> Some(409)
      [] status_const = mn_IM_A_TEAPOT -> Some(418)
      [] status_const = mn_UNPROCESSABLE_ENTITY -> Some(422)
      [] status_const = mn_INTERNAL_SERVER_ERROR -> Some(500)
      [] status_const = mn_BAD_GATEWAY -> Some(502)
      [] status_const = mn_SERVICE_UNAVAILABLE -> Some(503)
      [] status_const = mn_GATEWAY_TIMEOUT -> Some(504)
      [] OTHER -> None

(* The generated into_response applied to a value of the variant: the      *)
(* status of the first arm that matches it; None when the arm names no     *)
(* constant of StatusCode (the generated code does not compile).           *)
into_response(match_arms, variant) ==
    LET i == CHOOSE k \in 1..Len(match_arms) :
                 /\ match_arms[k].variant = variant
                 /\ \A j \in 1..(k - 1) : match_arms[j].variant # variant
    IN  HttpStatusCode(match_arms[i].status_const)

-----------------------------------------------------------------------------
(* Bounds of the inputs. *)
MaxAttrs == 3       \* attributes in one impl block
MaxEntries == 3     \* entries in one response! call
MaxIdentLen == 3    \* characters of an enumerated status mnemonic

(* All sequences over S of length n, and of length at most n. *)
RECURSIVE SeqsOfLen(_, _)
SeqsOfLen(S, n) ==
    IF n = 0 THEN {<<>>}
    ELSE {Append(q, x) : q \in SeqsOfLen(S, n - 1), x \in S}

SeqsUpTo(S, n) == UNION {SeqsOfLen(S, k) : k \in 0..n}

(* Route paths. *)
path_users == <<"/","u","s","e","r","s">>
path_item == <<"/","i","t","e","m","s","/","{","i","d","}">>
path_health == <<"h","e","a","l","t","h">>

id_argon_macros == <<"a","r","g","o","n","_","m","a","c","r","o","s">>
id_Delete == <<"D","e","l","e","t","e">>
id_tag == <<"t","a","g">>

(* Route attributes: #[get("/users")], #[argon_macros::post("/users")],    *)
(* #[Delete("health")], #[put(42)], #[patch], #[tag("/users")], which is   *)
(* no route verb, #[get(Item)] and #[get()].                               *)
attr_get_users == ListAttr(<<id_get>>, LitStrTokens(path_users))
attr_get_item == ListAttr(<<id_get>>, LitStrTokens(path_item))
attr_post_users ==
    ListAttr(<<id_argon_macros, id_post>>, LitStrTokens(path_users))
attr_Delete_health == ListAttr(<<id_Delete>>, LitStrTokens(path_health))
attr_put_int == ListAttr(<<id_put>>, LitIntTokens(42))
attr_patch_bare == PathAttr(<<id_patch>>)
attr_tag == ListAttr(<<id_tag>>, LitStrTokens(path_users))
attr_get_type == ListAttr(<<id_get>>, TypeTokens(Ty("Item")))
attr_get_empty == ListAttr(<<id_get>>, KvTokens(<<>>))

UtoipaResponse(tokens) == ListAttr(<<id_utoipa_response>>, tokens)

(* Response attributes. *)
resp_Item == UtoipaResponse(TypeTokens(Ty("Item")))
resp_ref_Item == UtoipaResponse(TypeTokens(RefTy(Ty("Item"))))
resp_Page_Item ==
    UtoipaResponse(TypeTokens(Generic("Page", <<Ty("Item")>>)))
resp_type_body == UtoipaResponse(TypeTokens(Ty("body")))
resp_created ==
    UtoipaResponse(KvTokens(<<Kv("status", IntVal(201)),
                              Kv("body", TyVal(Ty("User"))),
                              Kv("description", StrVal("User created"))>>))
resp_body_Item == UtoipaResponse(KvTokens(<<Kv("body", TyVal(Ty("Item")))>>))
resp_conflict ==
    UtoipaResponse(KvTokens(<<Kv("body", TyVal(Ty("Item"))),
                              Kv("response", TyVal(Ty("User")))>>))
resp_unknown_key ==
    UtoipaResponse(KvTokens(<<Kv("status", IntVal(200)),
                              Kv("body", TyVal(Ty("Item"))),
                              Kv("foo", IntVal(1))>>))
resp_status_only == UtoipaResponse(KvTokens(<<Kv("status", IntVal(404))>>))
resp_body_str ==
    UtoipaResponse(KvTokens(<<Kv("body", StrVal("Item"))>>))
resp_no_list == PathAttr(<<id_utoipa_response>>)
resp_conflict_generic ==
    UtoipaResponse(KvTokens(<<Kv("response", TyVal(
                                  Generic("Envelope", <<Ty("User")>>))),
                              Kv("body", TyVal(Ty("Item")))>>))
resp_empty == UtoipaResponse(KvTokens(<<>>))
resp_status_overflow ==
    UtoipaResponse(KvTokens(<<Kv("status", IntVal(70000)),
                              Kv("body", TyVal(Ty("Item")))>>))
resp_envelope ==
    UtoipaResponse(KvTokens(<<Kv("response", TyVal(
        Generic("UserResponse",
                <<Ty("User"), Ty("NotFound"), Ty("Unauthorized"),
                  Ty("InternalError")>>)))>>))
resp_envelope_dup ==
    UtoipaResponse(KvTokens(<<Kv("response", TyVal(
        Generic("Envelope", <<Ty("Item"), Ty("User"), Ty("Item")>>)))>>))
resp_envelope_nested ==
    UtoipaResponse(KvTokens(<<Kv("response", TyVal(
        Generic("Envelope",
                <<Generic("Wrapper", <<Ty("Item")>>), Ty("User")>>)))>>))
resp_envelope_lifetime ==
    UtoipaResponse(KvTokens(<<Kv("response", TyVal(
        Generic("Borrowed", <<Lifetime("'a"), RefTy(Ty("Item"))>>)))>>))
resp_plain ==
    UtoipaResponse(KvTokens(<<Kv("response", TyVal(Ty("UserResponse")))>>))

(* #[utoipa_response(response = T)] for envelopes with nested, const,      *)
(* reference and qualified arguments.                                      *)
Composed(envelope) ==
    UtoipaResponse(KvTokens(<<Kv("response", TyVal(envelope))>>))
ty_Wrapper_Item == Generic("Wrapper", <<Ty("Item")>>)
NestedUniverse ==
    {Composed(Generic("Envelope", <<ty_Wrapper_Item, Ty("User")>>)),
     Composed(Generic("Envelope",
                      <<Generic("Outer", <<ty_Wrapper_Item, Ty("Error")>>),
                        Ty("User")>>)),
     Composed(Generic("Matrix", <<Ty("Item"), ConstArg("3"), Lifetime("'a")>>)),
     Composed(Generic("Envelope", <<RefTy(ty_Wrapper_Item), Ty("User")>>)),
     Composed(RefTy(Generic("Envelope", <<Ty("Item")>>))),
     Composed(Qualified(Generic("api", <<Ty("User")>>), "Envelope",
                        <<Ty("Item")>>)),
     Composed(Qualified(Generic("Page", <<Ty("User")>>), "Inner", <<>>)),
     Composed(Generic("Envelope",
                      <<Qualified(Generic("api", <<Ty("User")>>), "Wrapper",
                                  <<Ty("Item")>>), Ty("Error")>>))}

(* #[utoipa_response(status = s, body = T, description = "d")], with the   *)
(* status and the description optional, and the same with the keys in the  *)
(* opposite order.                                                         *)
StatusArg(status) ==
    IF status.some THEN <<Kv("status", IntVal(status.v))>> ELSE <<>>
DescriptionArg(description) ==
    IF description.some
    THEN <<Kv("description", StrVal(description.v))>> ELSE <<>>
ExplicitBody(status, body, description) ==
    UtoipaResponse(KvTokens(StatusArg(status) \o <<Kv("body", TyVal(body))>>
                            \o DescriptionArg(description)))
ExplicitBodyReversed(status, body, description) ==
    UtoipaResponse(KvTokens(DescriptionArg(description)
                            \o <<Kv("body", TyVal(body))>>
                            \o StatusArg(status)))
ExplicitUniverse ==
    {ExplicitBody(s, b, d) :
        s \in {None, Some(201), Some(404)},
        b \in {Ty("User"), Ty("Item")},
        d \in {None, Some("User created")}}
    \cup
    {ExplicitBodyReversed(Some(404), Generic("Page", <<Ty("Item")>>),
                          Some("Not found"))}

(* The attribute universes the impl blocks are built from. *)
RouteUniverse ==
    {attr_get_users, attr_post_users, attr_Delete_health, attr_put_int,
     attr_patch_bare, attr_tag, resp_Item}
ResponseUniverse ==
    {resp_Item, resp_created, resp_conflict, resp_unknown_key,
     resp_status_only, resp_empty, resp_plain}
SchemaUniverse ==
    {resp_Item, resp_body_Item, resp_created, resp_envelope,
     resp_envelope_dup, resp_envelope_nested, resp_envelope_lifetime}
AllAttrs ==
    RouteUniverse \cup ResponseUniverse \cup SchemaUniverse
    \cup {attr_get_item, resp_ref_Item, resp_status_overflow,
          resp_Page_Item, resp_type_body, attr_get_type, attr_get_empty,
          resp_body_str, resp_no_list, resp_conflict_generic}

(* The methods of an impl block, by position; show takes &self. *)
FnIdents == <<"index", "show", "store">>
Method(i, attrs) ==
    [item |-> "fn", ident |-> FnIdents[i], has_self |-> (i = 2),
     attrs |-> attrs]
ConstItem(attrs) ==
    [item |-> "const", ident |-> "VERSION", has_self |-> FALSE,
     attrs |-> attrs]

ImplBlock(self_ty, items) ==
    [construct |-> "impl", self_ty |-> self_ty, items |-> items]

(* The attributes attrs dealt to Len(sizes) methods in order, sizes[j] of  *)
(* them to method j, each after the fixed prefix.                          *)
RECURSIVE SumUpTo(_, _)
SumUpTo(sizes, j) == IF j = 0 THEN 0 ELSE sizes[j] + SumUpTo(sizes, j - 1)

Grouped(prefix, attrs, sizes) ==
    [j \in 1..Len(sizes) |->
        Method(j, prefix \o SubSeq(attrs, SumUpTo(sizes, j - 1) + 1,
                                   SumUpTo(sizes, j)))]

(* The macro is invoked on the input. *)
Invoked(macro, input) == invocation = [macro |-> macro, input |-> input]

(* controller is invoked on an impl block of at most Len(FnIdents) methods *)
(* that carry, in total and after the fixed prefix, at most MaxAttrs       *)
(* attributes of the universe.                                             *)
InvokedOnImplBlockOver(universe, prefix) ==
    \E n \in 0..MaxAttrs : \E attrs \in [1..n -> universe] :
        \E k \in 0..Len(FnIdents) : \E sizes \in [1..k -> 0..n] :
            /\ SumUpTo(sizes, k) = n
            /\ Invoked("controller",
                       ImplBlock(Ty("UserController"),
                                 Grouped(prefix, attrs, sizes)))

(* The inputs of controller:                                               *)
(*   - impl blocks whose methods carry attributes of RouteUniverse;        *)
(*   - impl blocks whose methods are routed and carry response attributes; *)
(*   - impl blocks of one method with any two attributes;                  *)
(*   - impl blocks with an associated const beside a method;               *)
(*   - impl blocks of one routed method with one or two response           *)
(*     attributes, the first in key/value form with a body;                *)
(*   - impl blocks of one routed method with one or two response           *)
(*     attributes, the first a composed envelope with nested arguments;    *)
(*   - an impl block of a type that is no path, and an item that is no     *)
(*     impl block.                                                         *)
InvokedController ==
    \/ InvokedOnImplBlockOver(RouteUniverse, <<>>)
    \/ InvokedOnImplBlockOver(ResponseUniverse, <<attr_get_item>>)
    \/ InvokedOnImplBlockOver(SchemaUniverse, <<attr_get_item>>)
    \/ \E a \in AllAttrs, b \in AllAttrs :
          Invoked("controller",
                  ImplBlock(Ty("UserController"), <<Method(1, <<a, b>>)>>))
    \/ \E a \in RouteUniverse, b \in RouteUniverse :
          \/ Invoked("controller",
                     ImplBlock(Ty("UserController"),
                               <<ConstItem(<<a>>), Method(1, <<b>>)>>))
          \/ Invoked("controller",
                     ImplBlock(Ty("UserController"),
                               <<Method(1, <<a>>), ConstItem(<<b>>)>>))
    \/ \E a \in ExplicitUniverse, b \in ExplicitUniverse \cup ResponseUniverse :
          \/ Invoked("controller",
                     ImplBlock(Ty("UserController"),
                               <<Method(1, <<attr_get_item, a>>)>>))
          \/ Invoked("controller",
                     ImplBlock(Ty("UserController"),
                               <<Method(1, <<attr_get_item, a, b>>)>>))
    \/ \E a \in NestedUniverse, b \in NestedUniverse \cup {resp_Item} :
          \/ Invoked("controller",
                     ImplBlock(Ty("UserController"),
                               <<Method(1, <<attr_get_item, a>>)>>))
          \/ Invoked("controller",
                     ImplBlock(Ty("UserController"),
                               <<Method(1, <<attr_get_item, a, b>>)>>))
    \/ Invoked("controller",
               ImplBlock(RefTy(Ty("UserController")),
                         <<Method(1, <<attr_get_users>>)>>))
    \/ Invoked("controller",
               [construct |-> "struct", self_ty |-> Ty("UserController"),
                items |-> <<>>])

(* Status mnemonics: those the macro knows, other constants of StatusCode, *)
(* TEAPOT, and every identifier of at most MaxIdentLen characters over a   *)
(* small alphabet.                                                         *)
TableMnemonics ==
    {mn_OK, mn_CREATED, mn_NO_CONTENT, mn_BAD_REQUEST, mn_UNAUTHORIZED,
     mn_FORBIDDEN, mn_NOT_FOUND, mn_METHOD_NOT_ALLOWED, mn_CONFLICT,
     mn_UNPROCESSABLE_ENTITY, mn_INTERNAL_SERVER_ERROR, mn_BAD_GATEWAY,
     mn_SERVICE_UNAVAILABLE}
OtherMnemonics == {mn_ACCEPTED, mn_IM_A_TEAPOT, mn_GATEWAY_TIMEOUT, mn_TEAPOT}
IdentChars == {"a", "B", "_", "1"}
SmallIdents ==
    {w \in SeqsUpTo(IdentChars, MaxIdentLen) :
        w # <<>> /\ w # <<"_">> /\ Head(w) \notin Digits}
Mnemonics == TableMnemonics \cup OtherMnemonics \cup SmallIdents

desc_custom == <<"c","u","s","t","o","m">>
desc_auth ==
    <<"A","u","t","h","e","n","t","i","c","a","t","i",
      "o","n"," ","r","e","q","u","i","r","e","d">>

Entry(status_code, response_type, description) ==
    [status_code |-> status_code, response_type |-> response_type,
     description |-> description]

(* The entries the longer entry lists are built from. *)
EntryUniverse ==
    {Entry(<<mn_StatusCode, mn_OK>>, Ty("User"), None),
     Entry(<<mn_StatusCode, mn_NOT_FOUND>>, Ty("NotFoundError"), None),
     Entry(<<mn_StatusCode, mn_UNAUTHORIZED>>, Ty("UnauthorizedError"),
           Some(desc_auth)),
     Entry(<<mn_INTERNAL_SERVER_ERROR>>, Ty("InternalError"), None),
     Entry(<<mn_StatusCode, mn_ACCEPTED>>, Ty("User"), None),
     Entry(<<mn_StatusCode, mn_TEAPOT>>, Ty("Tea"), Some(desc_custom))}

(* The inputs of response!: one entry with any mnemonic, lists of entries  *)
(* (the empty list too), and tokens that are no entry list.                *)
ResponseInputs ==
    {[syntax |-> "entries",
      entries |-> <<Entry(<<mn_StatusCode, m>>, Ty("User"), d)>>] :
        m \in Mnemonics, d \in {None, Some(desc_custom)}}
    \cup
    {[syntax |-> "entries", entries |-> entries] :
        entries \in SeqsUpTo(EntryUniverse, MaxEntries)}
    \cup
    {[syntax |-> "malformed", entries |-> <<>>]}

-----------------------------------------------------------------------------
(* The state machine: one macro invocation, expanded once. *)
NoTokens == [kind |-> "none"]

(* No call of auth_middleware is in progress. *)
NoCall == [pc |-> "idle"]

Init ==
    /\ \/ InvokedController
       \/ \E input \in ResponseInputs : Invoked("response", input)
    /\ pc = "start"
    /\ expanded = NoTokens
    /\ random_state \in RandomStates
    /\ previous = NoTokens
    /\ middleware = NoCall

(* The compiler expands #[controller] on the item. *)
Controller ==
    /\ pc = "start"
    /\ invocation.macro = "controller"
    /\ expanded' = controller(invocation.input)
    /\ pc' = "done"
    /\ UNCHANGED <<invocation, random_state, previous, middleware>>

(* The compiler expands response! { ... }. *)
Response ==
    /\ pc = "start"
    /\ invocation.macro = "response"
    /\ expanded' = response(invocation.input)
    /\ pc' = "done"
    /\ UNCHANGED <<invocation, random_state, previous, middleware>>

Next == Controller \/ Response

Spec == Init /\ [][Next]_vars

(* The host program is compiled again with the same source: the macro runs *)
(* once more on the same input, in a new process with new hash keys.       *)
Rerun ==
    /\ pc = "done"
    /\ previous = NoTokens
    /\ previous' = expanded
    /\ expanded' = NoTokens
    /\ random_state' \in RandomStates
    /\ pc' = "start"
    /\ UNCHANGED <<invocation, middleware>>

NextRerun == Controller \/ Response \/ Rerun

SpecRerun == Init /\ [][NextRerun]_vars

-----------------------------------------------------------------------------
(* auth_middleware (core/src/auth.rs).  A request has extensions (the      *)
(* authenticator of type T, a user of type R) and headers; a header value  *)
(* is bytes that are or are not visible ASCII.  An authenticator has the   *)
(* name of the header it reads and its verify, a function from the token   *)
(* text to Ok(user) or Err(status).                                        *)
HeaderNames == {"authorization", "x-api-key"}
TokenTexts == {"t1", "t2"}
Users == {"alice", "bob"}
HeaderValue(bytes, visible_ascii) ==
    [bytes |-> bytes, visible_ascii |-> visible_ascii]
HeaderValues ==
    {None} \cup {Some(HeaderValue(t, TRUE)) : t \in TokenTexts}
    \cup {Some(HeaderValue("t1", FALSE))}
VerifyOutcomes == {Ok("alice"), Err(401), Err(403)}
Authenticators ==
    {[header_name |-> h, verify |-> f] :
        h \in HeaderNames, f \in [TokenTexts -> VerifyOutcomes]}
HandlerStatuses == {200, 404}

Requests ==
    {[extensions |-> [authenticator |-> a, user |-> u], headers |-> hs] :
        a \in {None} \cup {Some(x) : x \in Authenticators},
        u \in {None, Some("bob")},
        hs \in [HeaderNames -> HeaderValues]}

(* HeaderValue::to_str *)
to_str(header) ==
    IF header.visible_ascii THEN Ok(header.bytes) ELSE Err(401)

(* axum calls the middleware with a request. *)
InitAuth ==
    /\ invocation = [macro |-> "none", input |-> <<>>]
    /\ pc = "idle"
    /\ expanded = NoTokens
    /\ random_state = "k0"
    /\ previous = NoTokens
    /\ \E request \in Requests :
          middleware = [pc |-> "start", request |-> request, result |-> None,
                        verify_calls |-> <<>>, next_runs |-> <<>>]

(* The call stops with the result. *)
Returns(result) ==
    middleware' = [middleware EXCEPT !.pc = "done", !.result = Some(result)]

(* Lines 39-51, up to the await of verify: the authenticator extension,    *)
(* the header it names, the header as text, the call of verify.            *)
auth_middleware ==
    /\ middleware.pc = "start"
    /\ LET request == middleware.request
           authenticator == request.extensions.authenticator
       IN  IF ~authenticator.some THEN Returns(Err(500))
           ELSE LET header == request.headers[authenticator.v.header_name]
                IN  IF ~header.some THEN Returns(Err(401))
                    ELSE IF ~to_str(header.v).ok
                    THEN Returns(Err(to_str(header.v).err))
                    ELSE middleware' =
                           [middleware EXCEPT
                               !.pc = "verify",
                               !.verify_calls =
                                   Append(@, to_str(header.v).v)]
    /\ UNCHANGED <<invocation, pc, expanded, random_state, previous>>

(* A variant of verify_returns that calls next.run without inserting the   *)
(* user, and also when verify failed.                                      *)
verify_returns_withoutCheck ==
    /\ middleware.pc = "verify"
    /\ middleware' =
           [middleware EXCEPT
               !.pc = "next_run",
               !.next_runs = Append(@, middleware.request)]
    /\ UNCHANGED <<invocation, pc, expanded, random_state, previous>>

(* Lines 51-55, from the end of the await of verify to the await of        *)
(* next.run: the ? on the outcome, the insertion of the user, the call of  *)
(* next.run with the request.                                              *)
verify_returns ==
    /\ middleware.pc = "verify"
    /\ LET authenticator == middleware.request.extensions.authenticator.v
           token == middleware.verify_calls[Len(middleware.verify_calls)]
           outcome == authenticator.verify[token]
       IN  IF ~outcome.ok THEN Returns(Err(outcome.err))
           ELSE LET request ==
                        [middleware.request EXCEPT
                            !.extensions.user = Some(outcome.v)]
                IN  middleware' =
                        [middleware EXCEPT
                            !.pc = "next_run",
                            !.request = request,
                            !.next_runs = Append(@, request)]
    /\ UNCHANGED <<invocation, pc, expanded, random_state, previous>>

(* Line 55, after the await of next.run: the handler's response, in Ok. *)
next_run_returns ==
    /\ middleware.pc = "next_run"
    /\ \E status \in HandlerStatuses : Returns(Ok([status |-> status]))
    /\ UNCHANGED <<invocation, pc, expanded, random_state, previous>>

NextAuth == auth_middleware \/ verify_returns \/ next_run_returns

SpecAuth == InitAuth /\ [][NextAuth]_vars

-----------------------------------------------------------------------------
(* Properties of controller.                                               *)

ControllerDone == pc = "done" /\ invocation.macro = "controller"
ControllerExpanded == ControllerDone /\ expanded.kind = "expanded"

(* The j-th smallest element of a set of numbers. *)
NthOf(S, j) == CHOOSE i \in S : Cardinality({r \in S : r < i}) = j - 1

(* The route form of the annotation grammar: verb("<path-template>"). *)
IsRouteAnnotation(attr) ==
    /\ attr.segments # <<>>
    /\ ToLowercase(attr.segments[Len(attr.segments)])
           \in {id_get, id_post, id_put, id_delete, id_patch}
    /\ attr.meta = "list"
    /\ attr.tokens.form = "litstr"

RouteAnnotationIndices(attrs) ==
    {k \in 1..Len(attrs) : IsRouteAnnotation(attrs[k])}

(* The positions of the methods for which extract_route_attr gives a pair. *)
RoutedIndices(items) ==
    {i \in 1..Len(items) :
        items[i].item = "fn" /\ extract_route_attr(items[i].attrs).some}

(* C1: for every controller impl block the route table has exactly one     *)
(* entry per method for which extract_route_attr returns a (verb, path)    *)
(* pair and no other entry, in the methods' declaration order; equal       *)
(* verb/path pairs are kept.                                               *)
C1_RouteTableInDeclarationOrder ==
    ControllerDone /\ invocation.input.construct = "impl"
                   /\ invocation.input.self_ty.kind = "path" =>
        /\ expanded.kind = "expanded"
        /\ LET items == invocation.input.items
               routed == RoutedIndices(items)
               router == expanded.router
           IN  /\ Len(router) = Cardinality(routed)
               /\ \A j \in 1..Len(router) :
                    LET method == items[NthOf(routed, j)]
                        route == extract_route_attr(method.attrs).v
                    IN  router[j] =
                            [path |-> route[2],
                             axum_method |-> route[1],
                             handler_call |->
                                 <<invocation.input.self_ty.name,
                                   method.ident>>]

(* Three methods, the second without a route, the first and the third with *)
(* the same verb and path: two entries, index before store.                *)
C1_Witness ==
    /\ ControllerExpanded
    /\ Len(invocation.input.items) = 3
    /\ RoutedIndices(invocation.input.items) = {1, 3}
    /\ Len(expanded.router) = 2
    /\ expanded.router[1].handler_call[2] = "index"
    /\ expanded.router[2].handler_call[2] = "store"
    /\ expanded.router[1].path = expanded.router[2].path
    /\ expanded.router[1].axum_method = expanded.router[2].axum_method

(* The entries of a sequence of records whose field names the method. *)
RouterEntriesOf(ident) ==
    {j \in 1..Len(expanded.router) :
        expanded.router[j].handler_call[2] = ident}
PathFunctionsOf(ident) ==
    {j \in 1..Len(expanded.openapi_path_functions) :
        expanded.openapi_path_functions[j].wrapper_name
            = <<"__utoipa_path_", ident>>}
DocumentPathsOf(ident) ==
    {j \in 1..Len(expanded.openapi_attr.paths) :
        expanded.openapi_attr.paths[j] = <<"__utoipa_path_", ident>>}

WithoutLeadingSlash(path) ==
    IF path # <<>> /\ path[1] = "/" THEN SubSeq(path, 2, Len(path)) ELSE path

(* C2: a method with two route annotations gets exactly one route entry    *)
(* and one document path, with the verb and the path of the first of them, *)
(* and no error is raised.                                                 *)
C2_FirstRouteAnnotationWins ==
    ControllerDone /\ invocation.input.construct = "impl"
                   /\ invocation.input.self_ty.kind = "path" =>
        \A i \in 1..Len(invocation.input.items) :
            LET method == invocation.input.items[i]
                annotations == RouteAnnotationIndices(method.attrs)
            IN  method.item = "fn" /\ Cardinality(annotations) >= 2 =>
                  LET first == method.attrs[NthOf(annotations, 1)]
                      verb == ToLowercase(first.segments[Len(first.segments)])
                      path == first.tokens.str
                  IN  /\ expanded.kind = "expanded"
                      /\ Cardinality(RouterEntriesOf(method.ident)) = 1
                      /\ \A j \in RouterEntriesOf(method.ident) :
                            /\ expanded.router[j].axum_method = verb
                            /\ expanded.router[j].path = path
                      /\ Cardinality(PathFunctionsOf(method.ident)) = 1
                      /\ \A j \in PathFunctionsOf(method.ident) :
                            LET f == expanded.openapi_path_functions[j]
                            IN  /\ f.utoipa_method = verb
                                /\ f.path = WithoutLeadingSlash(path)
                      /\ Cardinality(DocumentPathsOf(method.ident)) = 1

(* #[get("/users")] #[argon_macros::post("/users")] fn index: one GET      *)
(* entry.                                                                  *)
C2_Witness ==
    /\ ControllerExpanded
    /\ Len(invocation.input.items) = 1
    /\ invocation.input.items[1].attrs = <<attr_get_users, attr_post_users>>
    /\ Len(expanded.router) = 1
    /\ expanded.router[1].axum_method = id_get

(* A method the annotation grammar makes a route: an fn item with a route  *)
(* annotation.                                                             *)
IsRouteAnnotated(item) ==
    item.item = "fn" /\ RouteAnnotationIndices(item.attrs) # {}

(* A response annotation, and the keys of one in key/value form. *)
IsResponseAnnotation(attr) ==
    /\ attr.segments # <<>>
    /\ attr.segments[Len(attr.segments)] = id_utoipa_response
    /\ attr.meta = "list"

KeysOf(attr) ==
    IF attr.tokens.form = "kv"
    THEN {attr.tokens.args[k].key : k \in 1..Len(attr.tokens.args)}
    ELSE {}

(* The response annotations of the route-annotated methods, in source      *)
(* order, as <<method position, attribute position>>.                      *)
ResponseAnnotationPlaces(items) ==
    UNION {{<<i, k>> : k \in {n \in 1..Len(items[i].attrs) :
                                  IsResponseAnnotation(items[i].attrs[n])}} :
           i \in {m \in 1..Len(items) : IsRouteAnnotated(items[m])}}

(* C3: a response annotation that supplies both body and response is       *)
(* rejected: the pass aborts with a diagnostic and emits neither the route *)
(* table nor the document.                                                 *)
C3_ConflictingAnnotationRejected ==
    ControllerDone /\ invocation.input.construct = "impl" =>
        \A pl \in ResponseAnnotationPlaces(invocation.input.items) :
            LET attr == invocation.input.items[pl[1]].attrs[pl[2]]
            IN  {"body", "response"} \subseteq KeysOf(attr) =>
                    expanded.kind = "compile_error"

(* C4: a key/value response annotation with a key outside status, body,    *)
(* response, description fails the pass with an error that names the key.  *)
C4_UnknownKeyRejected ==
    ControllerDone /\ invocation.input.construct = "impl" =>
        \A pl \in ResponseAnnotationPlaces(invocation.input.items) :
            LET attr == invocation.input.items[pl[1]].attrs[pl[2]]
            IN  \A key \in KeysOf(attr) \
                           {"status", "body", "response", "description"} :
                    /\ expanded.kind = "compile_error"
                    /\ \E k \in 1..Len(expanded.message) :
                           expanded.message[k] = key

(* The schema list of the document (empty when it has no components). *)
DocumentSchemas ==
    IF expanded.openapi_attr.components.some
    THEN expanded.openapi_attr.components.v
    ELSE <<>>

(* The elements of a sequence of types without the repetitions, each at    *)
(* its first place.                                                        *)
FirstOccurrences(types) ==
    LET firsts == {i \in 1..Len(types) :
                      \A j \in 1..(i - 1) : Render(types[j]) # Render(types[i])}
    IN  [k \in 1..Cardinality(firsts) |-> types[NthOf(firsts, k)]]

(* response = Envelope<A, B, ...> with plain type arguments. *)
IsFlatEnvelopeAnnotation(attr) ==
    /\ IsResponseAnnotation(attr)
    /\ attr.tokens.form = "kv"
    /\ Len(attr.tokens.args) = 1
    /\ attr.tokens.args[1].key = "response"
    /\ attr.tokens.args[1].val.lit = "type"
    /\ LET envelope == attr.tokens.args[1].val.ty
       IN  /\ envelope.kind = "path"
           /\ envelope.args # <<>>
           /\ \A a \in 1..Len(envelope.args) :
                  envelope.args[a].kind = "path" /\ envelope.args[a].args = <<>>

(* C5: response = Envelope<A,B,C,D> on a route-annotated method registers  *)
(* each of A, B, C, D once; when it is the controller's only response      *)
(* annotation the schema list is exactly the arguments in first-seen       *)
(* order, without the envelope type.                                       *)
C5_EnvelopeContributesItsArguments ==
    ControllerExpanded =>
        LET items == invocation.input.items
            places == ResponseAnnotationPlaces(items)
        IN  \A pl \in places :
              LET attr == items[pl[1]].attrs[pl[2]]
                  envelope == attr.tokens.args[1].val.ty
              IN  IsFlatEnvelopeAnnotation(attr) =>
                    /\ \A a \in 1..Len(envelope.args) :
                         Cardinality({k \in 1..Len(DocumentSchemas) :
                             DocumentSchemas[k] = envelope.args[a]}) = 1
                    /\ places = {pl} =>
                         /\ DocumentSchemas = FirstOccurrences(envelope.args)
                         /\ \A k \in 1..Len(DocumentSchemas) :
                                DocumentSchemas[k] # envelope

(* #[utoipa_response(response = UserResponse<User, NotFound, Unauthorized, *)
(* InternalError>)] alone: the four arguments, in order.                   *)
C5_Witness ==
    /\ ControllerExpanded
    /\ Len(invocation.input.items) = 1
    /\ invocation.input.items[1].attrs = <<attr_get_item, resp_envelope>>
    /\ DocumentSchemas =
           <<Ty("User"), Ty("NotFound"), Ty("Unauthorized"),
             Ty("InternalError")>>

(* The schema types collected from the route-annotated methods, methods in *)
(* declaration order and annotations in order within a method.             *)
RECURSIVE CollectedFrom(_, _)
CollectedFrom(items, i) ==
    IF i > Len(items) THEN <<>>
    ELSE (IF items[i].item = "fn" /\ extract_route_attr(items[i].attrs).some
          THEN extract_response_schema_types(items[i].attrs) ELSE <<>>)
         \o CollectedFrom(items, i + 1)

(* C6: the schema list has no two entries with the same rendered text,     *)
(* holds every collected type, and is ordered by the first occurrence of   *)
(* each type across the whole controller.                                  *)
C6_SchemasUniqueInFirstSeenOrder ==
    ControllerExpanded =>
        LET collected == CollectedFrom(invocation.input.items, 1)
            schemas == DocumentSchemas
            First(t) == NthOf({i \in 1..Len(collected) :
                                  Render(collected[i]) = Render(t)}, 1)
        IN  /\ \A i, j \in 1..Len(schemas) :
                   i # j => Render(schemas[i]) # Render(schemas[j])
            /\ \A i \in 1..Len(collected) :
                   \E k \in 1..Len(schemas) :
                       Render(schemas[k]) = Render(collected[i])
            /\ \A k \in 1..Len(schemas) :
                   \E i \in 1..Len(collected) : collected[i] = schemas[k]
            /\ \A i, j \in 1..Len(schemas) :
                   i < j => First(schemas[i]) < First(schemas[j])

(* Two routed methods: index documents User then Item, show documents Item *)
(* again: the schema list is User, Item.                                   *)
C6_Witness ==
    /\ ControllerExpanded
    /\ Len(invocation.input.items) = 2
    /\ invocation.input.items[1].attrs
           = <<attr_get_item, resp_created, resp_Item>>
    /\ invocation.input.items[2].attrs = <<attr_get_item, resp_body_Item>>
    /\ DocumentSchemas = <<Ty("User"), Ty("Item")>>

-----------------------------------------------------------------------------
(* Properties of response!.                                                *)

ResponseDone == pc = "done" /\ invocation.macro = "response"
ResponseExpanded == ResponseDone /\ expanded.kind = "expanded"

(* The status mnemonic of an entry: the last segment of its path. *)
MnemonicOf(entry) == entry.status_code[Len(entry.status_code)]

text_Not_found ==
    <<"N","o","t"," ","f","o","u","n","d">>
text_Internal_server_error ==
    <<"I","n","t","e","r","n","a","l"," ","s","e","r","v","e","r"," ","e",
      "r","r","o","r">>
text_NotFound ==
    <<"N","o","t","F","o","u","n","d">>
text_InternalServerError ==
    <<"I","n","t","e","r","n","a","l","S","e","r","v","e","r","E","r","r",
      "o","r">>

(* C7: without a description literal the description of NOT_FOUND is       *)
(* "Not found" and that of INTERNAL_SERVER_ERROR is "Internal server       *)
(* error"; with a literal the description is that literal.                 *)
C7_Descriptions ==
    ResponseExpanded =>
        \A i \in 1..Len(invocation.input.entries) :
            LET entry == invocation.input.entries[i]
                description == expanded.enum_variants[i].description
            IN  /\ entry.description.some =>
                       description = entry.description.v
                /\ ~entry.description.some /\ MnemonicOf(entry) = mn_NOT_FOUND
                       => description = text_Not_found
                /\ ~entry.description.some
                   /\ MnemonicOf(entry) = mn_INTERNAL_SERVER_ERROR
                       => description = text_Internal_server_error

(* C8: the status the generated into_response attaches to a value of a     *)
(* variant is the numeric status documented on that variant, whatever the  *)
(* mnemonic (for every entry whose generated arm compiles).                *)
C8_EncodedStatusIsDocumentedStatus ==
    ResponseExpanded =>
        \A i \in 1..Len(expanded.enum_variants) :
            LET attached == into_response(expanded.match_arms,
                                          expanded.enum_variants[i].variant)
            IN  attached.some =>
                    attached.v = expanded.enum_variants[i].status

(* The fixed mnemonic-to-code table. *)
StatusTable ==
    {<<mn_OK, 200>>, <<mn_CREATED, 201>>, <<mn_NO_CONTENT, 204>>,
     <<mn_BAD_REQUEST, 400>>, <<mn_UNAUTHORIZED, 401>>, <<mn_FORBIDDEN, 403>>,
     <<mn_NOT_FOUND, 404>>, <<mn_METHOD_NOT_ALLOWED, 405>>,
     <<mn_CONFLICT, 409>>, <<mn_UNPROCESSABLE_ENTITY, 422>>,
     <<mn_INTERNAL_SERVER_ERROR, 500>>, <<mn_BAD_GATEWAY, 502>>,
     <<mn_SERVICE_UNAVAILABLE, 503>>}

(* The variant identifier of a mnemonic: its characters other than '_',    *)
(* upper-cased at the start of a word (the first character and every       *)
(* character after a '_') and lower-cased elsewhere.                       *)
VariantIdentifier(mnemonic) ==
    LET kept == {p \in 1..Len(mnemonic) : mnemonic[p] # "_"}
        Cased(p) == IF p = 1 \/ mnemonic[p - 1] = "_"
                    THEN ToUpperChar(mnemonic[p])
                    ELSE ToLowerChar(mnemonic[p])
    IN  [k \in 1..Cardinality(kept) |-> Cased(NthOf(kept, k))]

(* C9: the numeric status of a variant is the table's code for its         *)
(* mnemonic and 200 for every mnemonic outside the table; a mnemonic       *)
(* outside the table is no error (the macro fails only for an entry list   *)
(* that is empty or malformed, or a mnemonic that gives no identifier).    *)
C9_StatusTable ==
    ResponseDone =>
        /\ expanded.kind = "expanded" =>
             \A i \in 1..Len(invocation.input.entries) :
                LET mnemonic == MnemonicOf(invocation.input.entries[i])
                    status == expanded.enum_variants[i].status
                IN  /\ \A row \in StatusTable :
                           row[1] = mnemonic => status = row[2]
                    /\ (\A row \in StatusTable : row[1] # mnemonic)
                           => status = 200
        /\ expanded.kind = "compile_error" =>
             \/ invocation.input.syntax # "entries"
             \/ invocation.input.entries = <<>>
        /\ expanded.kind = "panic" =>
             \E i \in 1..Len(invocation.input.entries) :
                LET name == VariantIdentifier(
                                MnemonicOf(invocation.input.entries[i]))
                IN  name = <<>> \/ name[1] \in Digits

(* StatusCode::TEAPOT = Tea, "custom": the variant has status 200. *)
C9_Witness ==
    /\ ResponseExpanded
    /\ \E i \in 1..Len(invocation.input.entries) :
          /\ MnemonicOf(invocation.input.entries[i]) = mn_TEAPOT
          /\ expanded.enum_variants[i].status = 200
    /\ \E i \in 1..Len(invocation.input.entries) :
          /\ MnemonicOf(invocation.input.entries[i]) = mn_NOT_FOUND
          /\ expanded.enum_variants[i].status = 404

(* C10: the variant identifier comes from the last path segment of the     *)
(* mnemonic, split on '_', each word with its first character upper-cased  *)
(* and the rest lower-cased, concatenated; the union has one variant per   *)
(* entry, in entry order, each carrying the declared type.                 *)
C10_VariantIdentifiers ==
    ResponseExpanded =>
        /\ Len(expanded.enum_variants) = Len(invocation.input.entries)
        /\ \A i \in 1..Len(invocation.input.entries) :
              LET entry == invocation.input.entries[i]
                  variant == expanded.enum_variants[i]
              IN  /\ variant.variant = VariantIdentifier(MnemonicOf(entry))
                  /\ variant.ty = entry.response_type
                  /\ MnemonicOf(entry) = mn_NOT_FOUND
                         => variant.variant = text_NotFound
                  /\ MnemonicOf(entry) = mn_INTERNAL_SERVER_ERROR
                         => variant.variant = text_InternalServerError

(* StatusCode::OK = User, StatusCode::NOT_FOUND = NotFoundError,           *)
(* INTERNAL_SERVER_ERROR = InternalError: Ok(User), NotFound(..),          *)
(* InternalServerError(..).                                                *)
C10_Witness ==
    /\ ResponseExpanded
    /\ Len(expanded.enum_variants) = 3
    /\ expanded.enum_variants[1].variant = <<"O", "k">>
    /\ expanded.enum_variants[1].ty = Ty("User")
    /\ expanded.enum_variants[2].variant = text_NotFound
    /\ expanded.enum_variants[2].ty = Ty("NotFoundError")
    /\ expanded.enum_variants[3].variant = text_InternalServerError
    /\ expanded.enum_variants[3].ty = Ty("InternalError")

-----------------------------------------------------------------------------
(* The union type and the encode implementation response! emitted, both    *)
(* with one variant (one arm) per entry.                                   *)
EmitsUnionAndEncode ==
    /\ expanded.kind = "expanded"
    /\ Len(expanded.enum_variants) = Len(invocation.input.entries)
    /\ Len(expanded.match_arms) = Len(invocation.input.entries)

EmptyDeclarationMessage ==
    <<"response! macro requires at least one status code and type pair">>

(* Every entry's mnemonic gives a variant identifier. *)
MnemonicsGiveIdentifiers ==
    \A i \in 1..Len(invocation.input.entries) :
        LET name == VariantIdentifier(MnemonicOf(invocation.input.entries[i]))
        IN  name # <<>> /\ name[1] \notin Digits

(* C11, as stated: a response! declaration with zero entries returns a     *)
(* diagnostic and emits neither the union type nor its encode              *)
(* implementation; with one or more entries it emits both.                 *)
C11_AsStated ==
    ResponseDone /\ invocation.input.syntax = "entries" =>
        /\ invocation.input.entries = <<>> =>
               expanded = CompileError(EmptyDeclarationMessage)
        /\ invocation.input.entries # <<>> => EmitsUnionAndEncode

(* C11: a response! declaration with zero entries returns a diagnostic and *)
(* emits neither the union type nor its encode implementation; with one or *)
(* more entries, each with a mnemonic that gives a variant identifier, it  *)
(* emits both.                                                             *)
C11_EmptyDeclarationIsAnError ==
    ResponseDone /\ invocation.input.syntax = "entries" =>
        /\ invocation.input.entries = <<>> =>
               expanded = CompileError(EmptyDeclarationMessage)
        /\ invocation.input.entries # <<>> /\ MnemonicsGiveIdentifiers
               => EmitsUnionAndEncode

(* response! { } was expanded to the diagnostic. *)
C11_Witness ==
    /\ ResponseDone
    /\ invocation.input.syntax = "entries"
    /\ invocation.input.entries = <<>>
    /\ expanded.kind = "compile_error"

-----------------------------------------------------------------------------
(* The documented responses of the path entry of a method. *)
ResponsesOf(ident) ==
    LET j == CHOOSE k \in PathFunctionsOf(ident) : TRUE
        f == expanded.openapi_path_functions[j]
    IN  IF f.responses.some THEN f.responses.v ELSE <<>>

(* The value a key/value annotation gives for a key (the key occurs once). *)
ValueOf(attr, key) ==
    attr.tokens.args[CHOOSE k \in 1..Len(attr.tokens.args) :
                         attr.tokens.args[k].key = key].val

(* The explicit form of the annotation grammar with a body:                *)
(* (status = <uint16>, body = <Type>, description = "<text>"), status and  *)
(* description optional, each key once, in any order.                      *)
IsExplicitBodyAnnotation(attr) ==
    /\ IsResponseAnnotation(attr)
    /\ attr.tokens.form = "kv"
    /\ "body" \in KeysOf(attr)
    /\ KeysOf(attr) \subseteq {"status", "body", "description"}
    /\ Cardinality(KeysOf(attr)) = Len(attr.tokens.args)
    /\ ValueOf(attr, "body").lit = "type"
    /\ "status" \in KeysOf(attr) =>
           /\ ValueOf(attr, "status").lit = "int"
           /\ ValueOf(attr, "status").int < 65536
    /\ "description" \in KeysOf(attr) =>
           ValueOf(attr, "description").lit = "str"

(* The triple the resolution rules give for an explicit annotation. *)
ExplicitTriple(attr) ==
    [resp |-> "triple",
     status |-> IF "status" \in KeysOf(attr)
                THEN ValueOf(attr, "status").int ELSE 200,
     description |-> IF "description" \in KeysOf(attr)
                     THEN ValueOf(attr, "description").str ELSE "Success",
     body |-> ValueOf(attr, "body").ty]

(* C12: a key/value response annotation with body = T on a routed method   *)
(* is documented as the triple (status, description, T), status the given  *)
(* one or 200 and description the given one or "Success"; it is the        *)
(* method's whole response list when it is the method's only response      *)
(* annotation; (status = 201, body = User, description = "User created")   *)
(* gives (201, "User created", User); and T is in the schema list.         *)
C12_ExplicitBodyTriple ==
    ControllerExpanded =>
        \A pl \in ResponseAnnotationPlaces(invocation.input.items) :
            LET method == invocation.input.items[pl[1]]
                attr == method.attrs[pl[2]]
                responses == ResponsesOf(method.ident)
                only == \A n \in 1..Len(method.attrs) :
                            IsResponseAnnotation(method.attrs[n]) => n = pl[2]
            IN  IsExplicitBodyAnnotation(attr)
                /\ Cardinality(PathFunctionsOf(method.ident)) = 1 =>
                  /\ \E r \in 1..Len(responses) :
                         responses[r] = ExplicitTriple(attr)
                  /\ only => responses = <<ExplicitTriple(attr)>>
                  /\ attr = resp_created =>
                         \E r \in 1..Len(responses) :
                             responses[r] =
                                 [resp |-> "triple", status |-> 201,
                                  description |-> "User created",
                                  body |-> Ty("User")]
                  /\ \E k \in 1..Len(DocumentSchemas) :
                         DocumentSchemas[k] = ValueOf(attr, "body").ty

(* #[get("/items/{id}")] #[utoipa_response(body = Item)]                   *)
(* #[utoipa_response(status = 201, body = User, description = "User        *)
(* created")]: (200, "Success", Item) and (201, "User created", User).     *)
C12_Witness ==
    /\ ControllerExpanded
    /\ Len(invocation.input.items) = 1
    /\ invocation.input.items[1].attrs
           = <<attr_get_item, resp_body_Item, resp_created>>
    /\ ResponsesOf("index")
           = <<TripleTokens(200, "Success", Ty("Item")),
               TripleTokens(201, "User created", Ty("User"))>>
    /\ DocumentSchemas = <<Ty("Item"), Ty("User")>>

-----------------------------------------------------------------------------
(* The shorthand form of the annotation grammar: a single bare type. *)
IsShorthandAnnotation(attr) ==
    IsResponseAnnotation(attr) /\ attr.tokens.form = "type"

(* C13: a shorthand response annotation with the bare type T on a routed   *)
(* method is documented as (200, "Success", T) and T is in the schema      *)
(* list; a controller with the one method #[get("/items/{id}")]            *)
(* #[utoipa_response(Item)] fn index gives the route table                 *)
(* [(get, "/items/{id}", UserController::index)], one document path with   *)
(* the responses [(200, "Success", Item)] and the schema list [Item].      *)
C13_ShorthandTriple ==
    ControllerExpanded =>
        /\ \A pl \in ResponseAnnotationPlaces(invocation.input.items) :
             LET method == invocation.input.items[pl[1]]
                 attr == method.attrs[pl[2]]
                 responses == ResponsesOf(method.ident)
                 only == \A n \in 1..Len(method.attrs) :
                             IsResponseAnnotation(method.attrs[n]) => n = pl[2]
                 triple == [resp |-> "triple", status |-> 200,
                            description |-> "Success", body |-> attr.tokens.ty]
             IN  IsShorthandAnnotation(attr)
                 /\ Cardinality(PathFunctionsOf(method.ident)) = 1 =>
                   /\ \E r \in 1..Len(responses) : responses[r] = triple
                   /\ only => responses = <<triple>>
                   /\ \E k \in 1..Len(DocumentSchemas) :
                          DocumentSchemas[k] = attr.tokens.ty
        /\ invocation.input.items
               = <<[item |-> "fn", ident |-> "index", has_self |-> FALSE,
                    attrs |-> <<attr_get_item, resp_Item>>]>> =>
             /\ expanded.router
                    = <<[path |-> path_item, axum_method |-> id_get,
                         handler_call |-> <<"UserController", "index">>]>>
             /\ Len(expanded.openapi_path_functions) = 1
             /\ expanded.openapi_path_functions[1].responses
                    = Some(<<[resp |-> "triple", status |-> 200,
                              description |-> "Success",
                              body |-> Ty("Item")]>>)
             /\ expanded.openapi_path_functions[1].utoipa_method = id_get
             /\ expanded.openapi_attr.paths = <<<<"__utoipa_path_", "index">>>>
             /\ DocumentSchemas = <<Ty("Item")>>

(* The end-to-end controller was expanded. *)
C13_Witness ==
    /\ ControllerExpanded
    /\ Len(invocation.input.items) = 1
    /\ invocation.input.items[1].attrs = <<attr_get_item, resp_Item>>
    /\ Len(expanded.router) = 1
    /\ ResponsesOf("index")
           = <<[resp |-> "triple", status |-> 200, description |-> "Success",
                body |-> Ty("Item")]>>
    /\ DocumentSchemas = <<Ty("Item")>>

-----------------------------------------------------------------------------
(* An annotation named by a route verb whose argument is not exactly one   *)
(* string literal.                                                         *)
IsMalformedVerbAnnotation(attr) ==
    /\ attr.segments # <<>>
    /\ ToLowercase(attr.segments[Len(attr.segments)])
           \in {id_get, id_post, id_put, id_delete, id_patch}
    /\ ~(attr.meta = "list" /\ attr.tokens.form = "litstr")

(* C14: a method with a verb-named annotation whose argument is not one    *)
(* string literal raises no error; the annotation is skipped: the method's *)
(* route entry and document path come from its first well-formed route     *)
(* annotation, wherever it stands, and without one the method has no route *)
(* entry and no document path.                                             *)
C14_MalformedVerbAnnotationSkipped ==
    ControllerDone /\ invocation.input.construct = "impl"
                   /\ invocation.input.self_ty.kind = "path" =>
        \A i \in 1..Len(invocation.input.items) :
            LET method == invocation.input.items[i]
                annotations == RouteAnnotationIndices(method.attrs)
            IN  /\ method.item = "fn"
                /\ \E n \in 1..Len(method.attrs) :
                       IsMalformedVerbAnnotation(method.attrs[n])
                =>
                /\ expanded.kind = "expanded"
                /\ annotations = {} =>
                     /\ RouterEntriesOf(method.ident) = {}
                     /\ PathFunctionsOf(method.ident) = {}
                     /\ DocumentPathsOf(method.ident) = {}
                /\ annotations # {} =>
                     LET first == method.attrs[NthOf(annotations, 1)]
                         verb == ToLowercase(first.segments[Len(first.segments)])
                     IN  /\ Cardinality(RouterEntriesOf(method.ident)) = 1
                         /\ \A j \in RouterEntriesOf(method.ident) :
                               /\ expanded.router[j].axum_method = verb
                               /\ expanded.router[j].path = first.tokens.str
                         /\ Cardinality(PathFunctionsOf(method.ident)) = 1
                         /\ Cardinality(DocumentPathsOf(method.ident)) = 1

(* #[put(42)] #[get("/users")] fn index and #[patch] fn show: one route    *)
(* entry, for index, with get.                                             *)
C14_Witness ==
    /\ ControllerExpanded
    /\ Len(invocation.input.items) = 2
    /\ invocation.input.items[1].attrs = <<attr_put_int, attr_get_users>>
    /\ invocation.input.items[2].attrs = <<attr_patch_bare>>
    /\ Len(expanded.router) = 1
    /\ expanded.router[1].axum_method = id_get
    /\ expanded.router[1].handler_call[2] = "index"
    /\ expanded.openapi_attr.paths = <<<<"__utoipa_path_", "index">>>>

-----------------------------------------------------------------------------
(* The composed form of the annotation grammar: (response = <Type>). *)
IsComposedAnnotation(attr) ==
    /\ IsResponseAnnotation(attr)
    /\ attr.tokens.form = "kv"
    /\ Len(attr.tokens.args) = 1
    /\ attr.tokens.args[1].key = "response"
    /\ attr.tokens.args[1].val.lit = "type"

(* A response annotation in one of the three forms of the grammar. *)
IsGrammarResponseAnnotation(attr) ==
    \/ IsShorthandAnnotation(attr)
    \/ IsExplicitBodyAnnotation(attr)
    \/ IsComposedAnnotation(attr)

(* The documented response the resolution rules give for an annotation of  *)
(* the grammar.                                                            *)
DocumentedResponse(attr) ==
    IF IsShorthandAnnotation(attr)
    THEN [resp |-> "triple", status |-> 200, description |-> "Success",
          body |-> attr.tokens.ty]
    ELSE IF IsComposedAnnotation(attr)
    THEN [resp |-> "into_responses", ty |-> attr.tokens.args[1].val.ty]
    ELSE ExplicitTriple(attr)

(* C15: the response annotations of a routed method are documented in      *)
(* source order, one documented response each: when all of them are of the *)
(* grammar the response list is their documented responses in order, and   *)
(* in any case two annotations of the grammar are documented in their      *)
(* order; a body = X annotation and a separate response = Y annotation on  *)
(* one method are both recorded.                                           *)
C15_ResponseAnnotationsRetainedInOrder ==
    ControllerExpanded =>
        \A i \in 1..Len(invocation.input.items) :
            LET method == invocation.input.items[i]
                places == {n \in 1..Len(method.attrs) :
                              IsResponseAnnotation(method.attrs[n])}
                grammar == {n \in places :
                               IsGrammarResponseAnnotation(method.attrs[n])}
                responses == ResponsesOf(method.ident)
            IN  IsRouteAnnotated(method) =>
                  /\ Cardinality(PathFunctionsOf(method.ident)) = 1
                  /\ places = grammar =>
                       /\ Len(responses) = Cardinality(places)
                       /\ \A k \in 1..Len(responses) :
                              responses[k] =
                                  DocumentedResponse(
                                      method.attrs[NthOf(places, k)])
                  /\ \A a, b \in grammar :
                       a < b =>
                         \E ra, rb \in 1..Len(responses) :
                            /\ ra < rb
                            /\ responses[ra] = DocumentedResponse(method.attrs[a])
                            /\ responses[rb] = DocumentedResponse(method.attrs[b])
                  /\ \A a \in grammar :
                         \E ra \in 1..Len(responses) :
                             responses[ra] = DocumentedResponse(method.attrs[a])

(* #[get("/items/{id}")] #[utoipa_response(status = 201, body = User, ..)] *)
(* #[utoipa_response(response = UserResponse)]: the triple, then the       *)
(* composed response.                                                      *)
C15_Witness ==
    /\ ControllerExpanded
    /\ Len(invocation.input.items) = 1
    /\ invocation.input.items[1].attrs
           = <<attr_get_item, resp_created, resp_plain>>
    /\ ResponsesOf("index")
           = <<[resp |-> "triple", status |-> 201,
                description |-> "User created", body |-> Ty("User")],
               [resp |-> "into_responses", ty |-> Ty("UserResponse")]>>

-----------------------------------------------------------------------------
(* C16: the document has a components/schemas section exactly when the     *)
(* deduplicated schema list is not empty, and the section then lists that  *)
(* list; a controller without response annotations, or with only           *)
(* response = T for a T without generic arguments, has paths only.         *)
C16_ComponentsIffSchemas ==
    ControllerExpanded =>
        LET items == invocation.input.items
            schemas == FirstOccurrences(CollectedFrom(items, 1))
            components == expanded.openapi_attr.components
        IN  /\ components.some <=> schemas # <<>>
            /\ components.some => components.v = schemas /\ components.v # <<>>
            /\ (\A pl \in ResponseAnnotationPlaces(items) :
                   LET attr == items[pl[1]].attrs[pl[2]]
                   IN  /\ IsComposedAnnotation(attr)
                       /\ attr.tokens.args[1].val.ty.args = <<>>)
                   => ~components.some
            /\ Len(expanded.openapi_attr.paths)
                   = Cardinality({i \in 1..Len(items) : IsRouteAnnotated(items[i])})

(* Two routed methods, one with #[utoipa_response(response = UserResponse)]:*)
(* two paths and no components section.                                    *)
C16_Witness ==
    /\ ControllerExpanded
    /\ Len(invocation.input.items) = 2
    /\ invocation.input.items[1].attrs = <<attr_get_item, resp_plain>>
    /\ invocation.input.items[2].attrs = <<attr_get_item>>
    /\ Len(expanded.openapi_attr.paths) = 2
    /\ ~expanded.openapi_attr.components.some

-----------------------------------------------------------------------------
(* The two outcomes of a run of controller: the route table together with  *)
(* the document, or a diagnostic and nothing else.                         *)
EmitsBothArtifacts ==
    /\ expanded.kind = "expanded"
    /\ {"router", "openapi_path_functions", "openapi_attr"}
           \subseteq DOMAIN expanded
    /\ "paths" \in DOMAIN expanded.openapi_attr
    /\ "message" \notin DOMAIN expanded

AbortsWithDiagnostic ==
    /\ expanded.kind = "compile_error"
    /\ DOMAIN expanded = {"kind", "message"}
    /\ expanded.message # <<>>

(* An impl block of a type named by a path. *)
IsNominalImplBlock(input) ==
    input.construct = "impl" /\ input.self_ty.kind = "path"

(* C17: a run of controller emits both the route table and the document or *)
(* aborts with a diagnostic and emits neither, never one artifact without  *)
(* the other; on a construct that is no impl block of a nominal type it    *)
(* aborts.                                                                 *)
C17_BothArtifactsOrNeither ==
    ControllerDone =>
        /\ EmitsBothArtifacts \/ AbortsWithDiagnostic
        /\ ~(EmitsBothArtifacts /\ AbortsWithDiagnostic)
        /\ ~IsNominalImplBlock(invocation.input) => AbortsWithDiagnostic

(* #[controller] on impl &UserController { ... }: the diagnostic alone. *)
C17_Witness ==
    /\ ControllerDone
    /\ invocation.input.construct = "impl"
    /\ invocation.input.self_ty.kind = "ref"
    /\ expanded = [kind |-> "compile_error",
                   message |-> <<"Expected a struct type">>]

-----------------------------------------------------------------------------
(* controller ran twice on the same input. *)
ControllerRanTwice ==
    /\ pc = "done"
    /\ invocation.macro = "controller"
    /\ previous # NoTokens

(* C18: two runs of controller on the same input, whatever the hash keys   *)
(* of each run, give the same route table and the same document, the order *)
(* of the schema entries included: the whole expansion is the same.        *)
C18_Deterministic ==
    ControllerRanTwice =>
        /\ expanded.kind = previous.kind
        /\ expanded.kind = "expanded" =>
             /\ expanded.router = previous.router
             /\ expanded.openapi_path_functions
                    = previous.openapi_path_functions
             /\ expanded.openapi_attr.paths = previous.openapi_attr.paths
             /\ expanded.openapi_attr.components
                    = previous.openapi_attr.components
        /\ expanded = previous

(* The second run of a controller whose document has the schemas User,     *)
(* NotFound, Unauthorized, InternalError gave them in that order again.    *)
C18_Witness ==
    /\ ControllerRanTwice
    /\ expanded.kind = "expanded"
    /\ Len(invocation.input.items) = 1
    /\ invocation.input.items[1].attrs = <<attr_get_item, resp_envelope>>
    /\ DocumentSchemas =
           <<Ty("User"), Ty("NotFound"), Ty("Unauthorized"),
             Ty("InternalError")>>
    /\ previous.openapi_attr.components = Some(DocumentSchemas)

-----------------------------------------------------------------------------
(* C19: the path list of the document and the route table have the same    *)
(* length; the i-th path identity is __utoipa_path_<method> of the method  *)
(* of the i-th route entry, documented with the same verb; a method has a  *)
(* path identity if and only if it has a route entry.                      *)
C19_ArtifactsConsistent ==
    ControllerExpanded =>
        LET router == expanded.router
            paths == expanded.openapi_attr.paths
            functions == expanded.openapi_path_functions
        IN  /\ Len(paths) = Len(router)
            /\ Len(functions) = Len(router)
            /\ \A i \in 1..Len(router) :
                  /\ paths[i] = <<"__utoipa_path_", router[i].handler_call[2]>>
                  /\ functions[i].wrapper_name = paths[i]
                  /\ functions[i].utoipa_method = router[i].axum_method
            /\ \A i \in 1..Len(invocation.input.items) :
                  LET ident == invocation.input.items[i].ident
                  IN  invocation.input.items[i].item = "fn" =>
                        /\ DocumentPathsOf(ident) # {}
                               <=> RouterEntriesOf(ident) # {}
                        /\ Cardinality(DocumentPathsOf(ident))
                               = Cardinality(RouterEntriesOf(ident))

(* Three methods, the second with #[put(42)] only: two route entries and   *)
(* two path identities, for index and store.                               *)
C19_Witness ==
    /\ ControllerExpanded
    /\ Len(invocation.input.items) = 3
    /\ invocation.input.items[1].attrs = <<attr_post_users>>
    /\ invocation.input.items[2].attrs = <<attr_put_int>>
    /\ invocation.input.items[3].attrs = <<attr_Delete_health>>
    /\ Len(expanded.router) = 2
    /\ expanded.openapi_attr.paths
           = <<<<"__utoipa_path_", "index">>, <<"__utoipa_path_", "store">>>>
    /\ expanded.router[1].axum_method = id_post
    /\ expanded.router[2].axum_method = id_delete

-----------------------------------------------------------------------------
(* C20: the two extractors treat every response annotation alike: each     *)
(* body type of a documented response triple of a routed method is in the  *)
(* schema list of the document; an annotation for which                    *)
(* extract_utoipa_response_attrs documents nothing gives                   *)
(* extract_response_schema_types no schema type; a controller without any  *)
(* documented response has no schema.                                      *)
C20_ExtractorsAgree ==
    ControllerExpanded =>
        LET items == invocation.input.items
            routed == {i \in 1..Len(items) : IsRouteAnnotated(items[i])}
        IN  /\ \A i \in routed :
                  LET responses == ResponsesOf(items[i].ident)
                  IN  \A r \in 1..Len(responses) :
                        responses[r].resp = "triple" =>
                          \E k \in 1..Len(DocumentSchemas) :
                              Render(DocumentSchemas[k])
                                  = Render(responses[r].body)
            /\ \A i \in 1..Len(items) : \A n \in 1..Len(items[i].attrs) :
                  LET attr == items[i].attrs[n]
                  IN  /\ extract_utoipa_response_attrs(<<attr>>) = <<>>
                          => extract_response_schema_types(<<attr>>) = <<>>
                      /\ \A r \in 1..Len(extract_utoipa_response_attrs(<<attr>>)) :
                          LET documented ==
                                  extract_utoipa_response_attrs(<<attr>>)[r]
                          IN  documented.resp = "triple" =>
                                extract_response_schema_types(<<attr>>)
                                    = <<documented.body>>
            /\ (\A i \in routed : ResponsesOf(items[i].ident) = <<>>)
                   => DocumentSchemas = <<>>

(* #[get("/items/{id}")] #[utoipa_response(body = Item, response = User)]  *)
(* #[utoipa_response(status = 201, body = User, description = "User        *)
(* created")]: the conflicting annotation gives no response and no schema, *)
(* the other one gives both.                                               *)
C20_Witness ==
    /\ ControllerExpanded
    /\ Len(invocation.input.items) = 1
    /\ invocation.input.items[1].attrs
           = <<attr_get_item, resp_conflict, resp_created>>
    /\ ResponsesOf("index")
           = <<[resp |-> "triple", status |-> 201,
                description |-> "User created", body |-> Ty("User")]>>
    /\ DocumentSchemas = <<Ty("User")>>

-----------------------------------------------------------------------------
(* The concatenation of a sequence of sequences. *)
RECURSIVE ConcatAll(_)
ConcatAll(seqs) ==
    IF seqs = <<>> THEN <<>> ELSE Head(seqs) \o ConcatAll(Tail(seqs))

(* The type arguments of the last segment of a path type, in order; none   *)
(* for a type that is no path.                                             *)
TypeArgumentsOf(ty) ==
    IF ty.kind # "path" THEN <<>>
    ELSE LET types == {a \in 1..Len(ty.args) :
                          ty.args[a].kind \in {"path", "ref"}}
         IN  [k \in 1..Cardinality(types) |-> ty.args[NthOf(types, k)]]

(* The schema candidates of an envelope whose arguments nest at most three *)
(* deep: for each type argument what is nested in it, then the argument.   *)
CandidatesOfThird(ty) ==
    TypeArgumentsOf(ty)
CandidatesOfSecond(ty) ==
    ConcatAll([k \in 1..Len(TypeArgumentsOf(ty)) |->
                  CandidatesOfThird(TypeArgumentsOf(ty)[k])
                  \o <<TypeArgumentsOf(ty)[k]>>])
CandidatesOf(ty) ==
    ConcatAll([k \in 1..Len(TypeArgumentsOf(ty)) |->
                  CandidatesOfSecond(TypeArgumentsOf(ty)[k])
                  \o <<TypeArgumentsOf(ty)[k]>>])

(* C21: for response = Envelope<...> the schema candidates are, for each   *)
(* type argument of the envelope's last path segment in order, the         *)
(* candidates nested in the argument and then the argument itself;         *)
(* lifetime and const arguments, the arguments of earlier path segments,   *)
(* and an envelope that is no path type give nothing;                      *)
(* Envelope<Wrapper<Item>, User> gives Item, Wrapper<Item>, User.          *)
C21_NestedArgumentsFirst ==
    ControllerExpanded =>
        LET items == invocation.input.items
            places == ResponseAnnotationPlaces(items)
        IN  \A pl \in places :
              LET attr == items[pl[1]].attrs[pl[2]]
                  envelope == attr.tokens.args[1].val.ty
                  candidates == CandidatesOf(envelope)
              IN  IsComposedAnnotation(attr) =>
                    /\ extract_types_from_generic(envelope) = candidates
                    /\ \A c \in 1..Len(candidates) :
                           \E k \in 1..Len(DocumentSchemas) :
                               Render(DocumentSchemas[k]) = Render(candidates[c])
                    /\ places = {pl} =>
                           DocumentSchemas = FirstOccurrences(candidates)
                    /\ envelope = Generic("Envelope",
                                          <<Generic("Wrapper", <<Ty("Item")>>),
                                            Ty("User")>>) =>
                           candidates = <<Ty("Item"),
                                          Generic("Wrapper", <<Ty("Item")>>),
                                          Ty("User")>>

(* #[utoipa_response(response = Envelope<Outer<Wrapper<Item>, Error>,      *)
(* User>)] alone: Item, Wrapper<Item>, Error, Outer<..>, User.             *)
C21_Witness ==
    /\ ControllerExpanded
    /\ Len(invocation.input.items) = 1
    /\ invocation.input.items[1].attrs
           = <<attr_get_item,
               Composed(Generic("Envelope",
                   <<Generic("Outer", <<ty_Wrapper_Item, Ty("Error")>>),
                     Ty("User")>>))>>
    /\ DocumentSchemas
           = <<Ty("Item"), ty_Wrapper_Item, Ty("Error"),
               Generic("Outer", <<ty_Wrapper_Item, Ty("Error")>>),
               Ty("User")>>

-----------------------------------------------------------------------------
(* Properties of auth_middleware.                                          *)

(* The header the authenticator of the request names, when there is one. *)
NamedHeader ==
    middleware.request.headers[
        middleware.request.extensions.authenticator.v.header_name]

(* The request has an authenticator and the header it names is text. *)
HeaderIsText ==
    /\ middleware.request.extensions.authenticator.some
    /\ NamedHeader.some
    /\ NamedHeader.v.visible_ascii

(* The outcome of the authenticator's verify on the header text. *)
VerifyOutcome ==
    middleware.request.extensions.authenticator.v.verify[NamedHeader.v.bytes]

(* C22: next.run is invoked only after verify succeeded on the text of the *)
(* request's header, at most once, with a request whose extensions hold    *)
(* the verified user; in every other case it is never invoked and the      *)
(* result is an error status: 500 without authenticator extension, 401     *)
(* when the header is missing or no valid text, and the status verify      *)
(* returned when it failed.                                                *)
C22_HandlerOnlyAfterVerify ==
    middleware.pc # "idle" =>
        /\ middleware.next_runs # <<>> =>
             /\ HeaderIsText
             /\ middleware.verify_calls = <<NamedHeader.v.bytes>>
             /\ VerifyOutcome.ok
             /\ Len(middleware.next_runs) = 1
             /\ middleware.next_runs[1].extensions.user
                    = Some(VerifyOutcome.v)
             /\ middleware.next_runs[1].headers = middleware.request.headers
        /\ middleware.pc = "done" /\ middleware.next_runs # <<>> =>
             middleware.result.v.ok
        /\ middleware.pc = "done" /\ ~(HeaderIsText /\ VerifyOutcome.ok) =>
             /\ middleware.next_runs = <<>>
             /\ ~middleware.result.v.ok
             /\ ~middleware.request.extensions.authenticator.some =>
                    middleware.result.v = [ok |-> FALSE, err |-> 500]
             /\ middleware.request.extensions.authenticator.some
                /\ ~HeaderIsText =>
                    middleware.result.v = [ok |-> FALSE, err |-> 401]
             /\ HeaderIsText =>
                    middleware.result.v = [ok |-> FALSE, err |-> VerifyOutcome.err]
        /\ middleware.pc = "done" /\ HeaderIsText /\ VerifyOutcome.ok =>
             middleware.next_runs # <<>>

(* A request that carried the user bob came back from the handler, which   *)
(* saw the verified user alice.                                            *)
C22_Witness ==
    /\ middleware.pc = "done"
    /\ middleware.result.v.ok
    /\ Len(middleware.next_runs) = 1
    /\ middleware.next_runs[1].extensions.user = Some("alice")
    /\ middleware.verify_calls = <<"t2">>

=============================================================================
